---- MODULE Spec2Model ----
(***************************************************************************)
(* Verification model of the rgb-core schema type algebra                  *)
(* (rgb/schema/types.rs), the validation status (validation/status.rs)    *)
(* and the checked consignment adaptor (validation/consignment.rs).        *)
(*                                                                         *)
(* Integers are kept at their Rust width.  A value of an unsigned type is  *)
(* a sequence of 16-bit limbs, least significant first: u8 and u16 take    *)
(* one limb (u8 is further restricted to 0..255), u32 two, u64 four and    *)
(* u128 eight.  Widening (Into) pads with zero limbs, narrowing (TryFrom)  *)
(* fails unless the dropped limbs are zero and the rest fits.              *)
(***************************************************************************)
EXTENDS Integers, Sequences, FiniteSets, TLC

VARIABLES
    \* Occurences::check: the receiver, the argument and the returned Result
    chk_pc, chk_I, chk_self, chk_T, chk_count, chk_result,
    \* StrictDecode for Occurences<I>: the reader's bytes and the outcome
    dec_pc, dec_I, dec_data, dec_result, dec_bytes,
    \* a validation Status under construction, the operation applied last, the
    \* right-hand operand if that was += and the failures handed to the
    \* operations so far, in order
    status, last_op, last_rhs, added_failures,
    \* three Status operands and the sums computed from them
    alg_pc, alg_a, alg_b, alg_c, sums,
    \* the provider wrapped by CheckedConsignment, the last call and its result
    prov_operations, prov_bundles, prov_api, cons_call, cons_result,
    \* StrictEncode for Occurences<I>: the value, its bytes and those bytes decoded
    enc_pc, enc_I, enc_self, enc_bytes, enc_back, enc_check,
    \* the u8 enums: a wire byte, its decoding and the re-encoding of the result;
    \* an unsigned type and the Bits it reports
    enm_pc, enm_type, enm_byte, enm_result, enm_bytes, enm_I, enm_bits,
    \* two anchors, the txid of the first and the result of merging them
    anc_self, anc_other, anc_txid, anc_merged,
    \* three witness anchors and the results of comparing them
    wit_pc, wit_orders, wit_x, wit_y, wit_z, wit_cmp,
    \* two revealed states, a void state and what they conceal to
    dat_pc, dat_hash, dat_r1, dat_r2, dat_concealed, dat_void, dat_cmp,
    \* a peer connection or the two halves it was split into, the shared
    \* awaiting_pong cells allocated so far and the messages sent and received
    peer_pc, peer_conn, peer_recv, peer_send, peer_cells, peer_wire

chk_vars == <<chk_pc, chk_I, chk_self, chk_T, chk_count, chk_result>>
dec_vars == <<dec_pc, dec_I, dec_data, dec_result, dec_bytes>>
st_vars == <<status, last_op, last_rhs, added_failures>>
alg_vars == <<alg_pc, alg_a, alg_b, alg_c, sums>>
cons_vars == <<prov_operations, prov_bundles, prov_api, cons_call, cons_result>>
enc_vars == <<enc_pc, enc_I, enc_self, enc_bytes, enc_back, enc_check>>
enm_vars == <<enm_pc, enm_type, enm_byte, enm_result, enm_bytes, enm_I, enm_bits>>
anc_vars == <<anc_self, anc_other, anc_txid, anc_merged>>
wit_vars == <<wit_pc, wit_orders, wit_x, wit_y, wit_z, wit_cmp>>
dat_vars == <<dat_pc, dat_hash, dat_r1, dat_r2, dat_concealed, dat_void, dat_cmp>>
core_vars == <<chk_vars, dec_vars, st_vars, alg_vars, cons_vars>>
peer_vars == <<peer_pc, peer_conn, peer_recv, peer_send, peer_cells, peer_wire>>
ext_vars == <<enc_vars, enm_vars, anc_vars, wit_vars, dat_vars, peer_vars>>
vars == <<core_vars, ext_vars>>

----------------------------------------------------------------------------
(* Fixed-width unsigned integers *)

LimbBase == 256 * 256

UnsignedTypes == {"u8", "u16", "u32", "u64"}
NumberTypes == UnsignedTypes \cup {"u128"}

\* rank of a type in the widening order u8 < u16 < u32 < u64 < u128
Rank(ty) ==
    CASE ty = "u8" -> 1 [] ty = "u16" -> 2 [] ty = "u32" -> 3
      [] ty = "u64" -> 4 [] ty = "u128" -> 5

NumLimbs(ty) ==
    CASE ty = "u8" -> 1 [] ty = "u16" -> 1 [] ty = "u32" -> 2
      [] ty = "u64" -> 4 [] ty = "u128" -> 8

\* std::u8::MAX .. std::u64::MAX (and u128::MAX), as a value of type ty
MAX(ty) ==
    [i \in 1..NumLimbs(ty) |->
        IF ty = "u8" THEN 255 ELSE LimbBase - 1]

\* a < b for two values of the same type
NumLt(a, b) ==
    \E i \in 1..Len(a) :
        /\ a[i] < b[i]
        /\ \A j \in (i + 1)..Len(a) : a[j] = b[j]

NumLe(a, b) == a = b \/ NumLt(a, b)
NumGt(a, b) == NumLt(b, a)

\* Into<to>: lossless widening
Into(v, to) == [i \in 1..NumLimbs(to) |-> IF i <= Len(v) THEN v[i] ELSE 0]

\* does the value v (of any type) fit the type ty
Fits(v, ty) ==
    /\ \A i \in 1..Len(v) : i > NumLimbs(ty) => v[i] = 0
    /\ NumLe([i \in 1..NumLimbs(ty) |-> IF i <= Len(v) THEN v[i] ELSE 0], MAX(ty))

\* I::try_from(v)
TryFrom(v, ty) ==
    IF Fits(v, ty)
    THEN [ok |-> TRUE, val |-> [i \in 1..NumLimbs(ty) |-> IF i <= Len(v) THEN v[i] ELSE 0]]
    ELSE [ok |-> FALSE, val |-> <<>>]

\* I::from(n) for a u8 literal n
FromU8(n, ty) == [i \in 1..NumLimbs(ty) |-> IF i = 1 THEN n ELSE 0]

----------------------------------------------------------------------------
(* The values the inputs are drawn from: around 0, 1, 42 and around every  *)
(* type's MAX, as u128 values.                                             *)

LowLimbs == {0, 1, 2, 42, 43, 254, 255, 256, LimbBase - 2, LimbBase - 1}

HighLimbs ==
    { <<0, 0, 0, 0, 0, 0, 0>>,
      <<1, 0, 0, 0, 0, 0, 0>>,
      <<LimbBase - 1, 0, 0, 0, 0, 0, 0>>,
      <<0, 1, 0, 0, 0, 0, 0>>,
      <<LimbBase - 1, LimbBase - 1, LimbBase - 1, 0, 0, 0, 0>>,
      <<0, 0, 0, 1, 0, 0, 0>>,
      <<LimbBase - 1, LimbBase - 1, LimbBase - 1, LimbBase - 1,
        LimbBase - 1, LimbBase - 1, LimbBase - 1>> }

SampleNums == { <<lo>> \o hi : lo \in LowLimbs, hi \in HighLimbs }

\* the sampled values of type ty
Values(ty) == { TryFrom(n, ty).val : n \in { m \in SampleNums : Fits(m, ty) } }

----------------------------------------------------------------------------
(* Occurences<I> *)

NoBound == [some |-> FALSE, val |-> <<>>]
Some(v) == [some |-> TRUE, val |-> v]

OptionOf(ty) == {NoBound} \cup { Some(v) : v \in Values(ty) }

Occurences(ty) ==
    { [kind |-> "Once", max |-> NoBound], [kind |-> "NoneOrOnce", max |-> NoBound] }
    \cup { [kind |-> k, max |-> m] : k \in {"OnceOrUpTo", "NoneOrUpTo"}, m \in OptionOf(ty) }

min_value(self, I) ==
    CASE self.kind = "Once" -> FromU8(1, I)
      [] self.kind = "NoneOrOnce" -> FromU8(0, I)
      [] self.kind = "OnceOrUpTo" -> FromU8(1, I)
      [] self.kind = "NoneOrUpTo" -> FromU8(0, I)

max_value(self, I) ==
    CASE self.kind = "Once" -> FromU8(1, I)
      [] self.kind = "NoneOrOnce" -> FromU8(1, I)
      [] self.kind \in {"OnceOrUpTo", "NoneOrUpTo"} /\ ~self.max.some -> MAX(I)
      [] self.kind \in {"OnceOrUpTo", "NoneOrUpTo"} /\ self.max.some -> self.max.val

OccurrencesError(self, I, found) ==
    [ok |-> FALSE, panic |-> FALSE,
     min |-> Into(min_value(self, I), "u128"),
     max |-> Into(max_value(self, I), "u128"),
     found |-> found]

CheckOk == [ok |-> TRUE, panic |-> FALSE, min |-> <<>>, max |-> <<>>, found |-> <<>>]
CheckPanic == [ok |-> FALSE, panic |-> TRUE, min |-> <<>>, max |-> <<>>, found |-> <<>>]

\* check_arms with the upper bounds taken as exclusive
check_arms_exclusive(self, I, count) ==
    \/ self.kind = "Once" /\ count = FromU8(1, I)
    \/ self.kind = "NoneOrOnce" /\ NumLt(count, FromU8(1, I))
    \/ self.kind = "OnceOrUpTo" /\ ~self.max.some /\ NumGt(count, FromU8(0, I))
    \/ self.kind = "OnceOrUpTo" /\ self.max.some
         /\ NumGt(count, FromU8(0, I)) /\ NumLt(count, self.max.val)
    \/ self.kind = "NoneOrUpTo" /\ ~self.max.some
    \/ self.kind = "NoneOrUpTo" /\ self.max.some /\ NumLt(count, self.max.val)

\* the match on self of Occurences::check, count already converted to I
check_arms(self, I, count) ==
    \/ self.kind = "Once" /\ count = FromU8(1, I)
    \/ self.kind = "NoneOrOnce" /\ NumLe(count, FromU8(1, I))
    \/ self.kind = "OnceOrUpTo" /\ ~self.max.some /\ NumGt(count, FromU8(0, I))
    \/ self.kind = "OnceOrUpTo" /\ self.max.some
         /\ NumGt(count, FromU8(0, I)) /\ NumLe(count, self.max.val)
    \/ self.kind = "NoneOrUpTo" /\ ~self.max.some
    \/ self.kind = "NoneOrUpTo" /\ self.max.some /\ NumLe(count, self.max.val)

\* count as I: the low bits that fit I
Truncate(v, ty) ==
    [i \in 1..NumLimbs(ty) |-> IF ty = "u8" THEN v[i] % 256 ELSE v[i]]

\* check without the guard against I::MAX, converting with a truncating cast
check_truncating(self, I, T, count) ==
    LET c == Truncate(count, I) IN
    IF check_arms(self, I, c) THEN CheckOk
    ELSE OccurrencesError(self, I, Into(c, "u128"))

\* Occurences<I>::check::<T>(count)
check(self, I, T, count) ==
    IF NumGt(count, Into(MAX(I), T))
    THEN OccurrencesError(self, I, Into(count, "u128"))
    ELSE LET conv == TryFrom(count, I) IN
         IF ~conv.ok THEN CheckPanic
         ELSE IF check_arms(self, I, conv.val) THEN CheckOk
         ELSE OccurrencesError(self, I, Into(count, "u128"))

----------------------------------------------------------------------------
(* Strict decoding of Occurences<I> *)

\* u8::strict_decode: one byte off the reader
u8_strict_decode(d) ==
    IF Len(d) < 1
    THEN [ok |-> FALSE, val |-> 0, rest |-> d]
    ELSE [ok |-> TRUE, val |-> d[1], rest |-> Tail(d)]

\* u64::strict_decode: eight bytes off the reader, little-endian
u64_strict_decode(d) ==
    IF Len(d) < 8
    THEN [ok |-> FALSE, val |-> <<>>, rest |-> d]
    ELSE [ok |-> TRUE,
          val |-> [k \in 1..4 |-> d[2 * k - 1] + 256 * d[2 * k]],
          rest |-> SubSeq(d, 9, Len(d))]

NoValue == [kind |-> "NoneOrOnce", max |-> NoBound]
NoError == [name |-> "", found |-> <<>>]

DecodeOk(v) == [kind |-> "Ok", value |-> v, error |-> NoError, msg |-> ""]
DecodeErr(e) == [kind |-> "Err", value |-> NoValue, error |-> e, msg |-> ""]
DecodePanic(m) == [kind |-> "Panic", value |-> NoValue, error |-> NoError, msg |-> m]

\* decode_max taking every value up to and including I::MAX as a bound
decode_max_inclusive(I, max) ==
    IF NumLe(max, Into(MAX(I), "u64"))
    THEN [kind |-> "Ok", max |-> Some(TryFrom(max, I).val), error |-> NoError, msg |-> ""]
    ELSE [kind |-> "Err", max |-> NoBound,
          error |-> [name |-> "ValueOutOfRange", found |-> Into(max, "u128")],
          msg |-> ""]

\* the match on the u64 max field: Ok(Some(v)), Ok(None), Err(ValueOutOfRange) or
\* the panic of expect("Can't fail")
decode_max(I, max) ==
    IF NumLe(<<0, 0, 0, 0>>, max) /\ NumLt(max, Into(MAX(I), "u64"))
    THEN LET conv == TryFrom(max, I) IN
         IF conv.ok THEN [kind |-> "Ok", max |-> Some(conv.val), error |-> NoError, msg |-> ""]
         ELSE [kind |-> "Panic", max |-> NoBound, error |-> NoError, msg |-> "Can't fail"]
    ELSE IF Into(max, "u128") = Into(MAX(I), "u128")
    THEN [kind |-> "Ok", max |-> NoBound, error |-> NoError, msg |-> ""]
    ELSE [kind |-> "Err", max |-> NoBound,
          error |-> [name |-> "ValueOutOfRange", found |-> Into(max, "u128")],
          msg |-> ""]

\* decode_tag returning an error for an unknown tag
decode_tag_checked(value, max) ==
    CASE value = 0 -> DecodeOk([kind |-> "NoneOrOnce", max |-> NoBound])
      [] value = 1 -> DecodeOk([kind |-> "Once", max |-> NoBound])
      [] value = 254 -> DecodeOk([kind |-> "NoneOrUpTo", max |-> max])
      [] value = 255 -> DecodeOk([kind |-> "OnceOrUpTo", max |-> max])
      [] OTHER -> DecodeErr([name |-> "EnumValueNotKnown", found |-> <<value>>])

\* the match on the tag byte
decode_tag(value, max) ==
    CASE value = 0 -> DecodeOk([kind |-> "NoneOrOnce", max |-> NoBound])
      [] value = 1 -> DecodeOk([kind |-> "Once", max |-> NoBound])
      [] value = 254 -> DecodeOk([kind |-> "NoneOrUpTo", max |-> max])
      [] value = 255 -> DecodeOk([kind |-> "OnceOrUpTo", max |-> max])
      [] OTHER -> DecodePanic("New occurrence types can't appear w/o this library to be aware of")

\* strict_decode examining the tag first and the max field only where it is used
strict_decode_tag_first(I, d) ==
    LET value == u8_strict_decode(d) IN
    IF ~value.ok THEN DecodeErr([name |-> "Io", found |-> <<>>]) ELSE
    LET max == u64_strict_decode(value.rest) IN
    IF ~max.ok THEN DecodeErr([name |-> "Io", found |-> <<>>]) ELSE
    IF value.val \in {0, 1} \/ value.val \notin {254, 255}
    THEN decode_tag(value.val, NoBound)
    ELSE LET bound == decode_max(I, max.val) IN
         CASE bound.kind = "Err" -> DecodeErr(bound.error)
           [] bound.kind = "Panic" -> DecodePanic(bound.msg)
           [] bound.kind = "Ok" -> decode_tag(value.val, bound.max)

\* <Occurences<I> as StrictDecode>::strict_decode(d)
strict_decode(I, d) ==
    LET value == u8_strict_decode(d) IN
    IF ~value.ok THEN DecodeErr([name |-> "Io", found |-> <<>>]) ELSE
    LET max == u64_strict_decode(value.rest) IN
    IF ~max.ok THEN DecodeErr([name |-> "Io", found |-> <<>>]) ELSE
    LET bound == decode_max(I, max.val) IN
    CASE bound.kind = "Err" -> DecodeErr(bound.error)
      [] bound.kind = "Panic" -> DecodePanic(bound.msg)
      [] bound.kind = "Ok" -> decode_tag(value.val, bound.max)

----------------------------------------------------------------------------
(* Strict encoding of Occurences<I> *)

\* u8::strict_encode: one byte onto the writer
u8_strict_encode(v) == <<v>>

\* u64::strict_encode: eight bytes onto the writer, little-endian
u64_strict_encode(v) ==
    [j \in 1..8 |-> IF j % 2 = 1 THEN v[(j + 1) \div 2] % 256 ELSE v[j \div 2] \div 256]

\* Option::unwrap_or
unwrap_or(opt, default) == IF opt.some THEN opt.val ELSE default

\* the (u8, u64) pair of strict_encode, None written as zero
encode_value_none_as_zero(self, I) ==
    CASE self.kind = "NoneOrOnce" -> [tag |-> 0, max |-> <<0, 0, 0, 0>>]
      [] self.kind = "Once" -> [tag |-> 1, max |-> <<0, 0, 0, 0>>]
      [] self.kind = "NoneOrUpTo" ->
            [tag |-> 254, max |-> Into(unwrap_or(self.max, FromU8(0, I)), "u64")]
      [] self.kind = "OnceOrUpTo" ->
            [tag |-> 255, max |-> Into(unwrap_or(self.max, FromU8(0, I)), "u64")]

\* the (u8, u64) pair of strict_encode
encode_value(self, I) ==
    CASE self.kind = "NoneOrOnce" -> [tag |-> 0, max |-> <<0, 0, 0, 0>>]
      [] self.kind = "Once" -> [tag |-> 1, max |-> <<0, 0, 0, 0>>]
      [] self.kind = "NoneOrUpTo" ->
            [tag |-> 254, max |-> Into(unwrap_or(self.max, MAX(I)), "u64")]
      [] self.kind = "OnceOrUpTo" ->
            [tag |-> 255, max |-> Into(unwrap_or(self.max, MAX(I)), "u64")]

\* <Occurences<I> as StrictEncode>::strict_encode: the bytes written
strict_encode(self, I) ==
    LET value == encode_value(self, I) IN
    u8_strict_encode(value.tag) \o u64_strict_encode(value.max)

----------------------------------------------------------------------------
(* Enums with an explicit repr byte, and their strict encoding *)

\* enum Bits with the bit counts as discriminants
Bits_bit_counts ==
    { [variant |-> "Bit8", repr |-> 8], [variant |-> "Bit16", repr |-> 16],
      [variant |-> "Bit32", repr |-> 32], [variant |-> "Bit64", repr |-> 64] }

\* #[repr(u8)] enum Bits
Bits ==
    { [variant |-> "Bit8", repr |-> 1], [variant |-> "Bit16", repr |-> 2],
      [variant |-> "Bit32", repr |-> 4], [variant |-> "Bit64", repr |-> 8] }

\* #[repr(u8)] enum DigestAlgorithm
DigestAlgorithm ==
    { [variant |-> "Sha256", repr |-> 17], [variant |-> "Sha512", repr |-> 18],
      [variant |-> "Bitcoin160", repr |-> 72], [variant |-> "Bitcoin256", repr |-> 81] }

\* #[repr(u8)] enum EllipticCurve
EllipticCurve ==
    { [variant |-> "Secp256k1", repr |-> 0], [variant |-> "Curve25519", repr |-> 16] }

\* #[repr(u8)] enum SignatureAlgorithm: Ecdsa = 0, the rest counted on
SignatureAlgorithm ==
    { [variant |-> "Ecdsa", repr |-> 0], [variant |-> "Schnorr", repr |-> 1],
      [variant |-> "Ed25519", repr |-> 2] }

\* #[repr(u8)] enum PointSerialization: Uncompressed = 0, the rest counted on
PointSerialization ==
    { [variant |-> "Uncompressed", repr |-> 0], [variant |-> "Compressed", repr |-> 1],
      [variant |-> "SchnorrBip", repr |-> 2] }

\* #[repr(u8)] enum Layer1
Layer1 ==
    { [variant |-> "Bitcoin", repr |-> 0], [variant |-> "Liquid", repr |-> 1] }

EnumTypes ==
    {"Bits", "DigestAlgorithm", "EllipticCurve", "SignatureAlgorithm",
     "PointSerialization", "Layer1"}

EnumOf(name) ==
    CASE name = "Bits" -> Bits
      [] name = "DigestAlgorithm" -> DigestAlgorithm
      [] name = "EllipticCurve" -> EllipticCurve
      [] name = "SignatureAlgorithm" -> SignatureAlgorithm
      [] name = "PointSerialization" -> PointSerialization
      [] name = "Layer1" -> Layer1

\* ToPrimitive::to_u8 of a variant of enum E
to_u8(E, variant) == (CHOOSE d \in E : d.variant = variant).repr

\* FromPrimitive::from_u8 into enum E
from_u8(E, byte) ==
    IF \E d \in E : d.repr = byte
    THEN Some((CHOOSE d \in E : d.repr = byte).variant)
    ELSE NoBound

EnumOk(variant) == [ok |-> TRUE, variant |-> variant, error |-> ""]
EnumErr(error) == [ok |-> FALSE, variant |-> "", error |-> error]

\* strict_encode of an enum: its repr byte
enum_strict_encode(E, variant) == u8_strict_encode(to_u8(E, variant))

\* strict_decode of an enum: one byte, then the variant with that repr
enum_strict_decode(E, d) ==
    LET byte == u8_strict_decode(d) IN
    IF ~byte.ok THEN EnumErr("Io")
    ELSE LET found == from_u8(E, byte.val) IN
         IF found.some THEN EnumOk(found.val) ELSE EnumErr("EnumValueNotKnown")

\* UnsignedInteger::bits
bits(I) ==
    CASE I = "u8" -> "Bit8" [] I = "u16" -> "Bit16"
      [] I = "u32" -> "Bit32" [] I = "u64" -> "Bit64"

\* Bits::max_value with Bit32 given the u16 maximum
Bits_max_value_narrow(self) ==
    CASE self = "Bit8" -> Into(MAX("u8"), "u128")
      [] self = "Bit16" -> Into(MAX("u16"), "u128")
      [] self = "Bit32" -> Into(MAX("u16"), "u128")
      [] self = "Bit64" -> Into(MAX("u64"), "u128")

\* Bits::max_value
Bits_max_value(self) ==
    CASE self = "Bit8" -> Into(MAX("u8"), "u128")
      [] self = "Bit16" -> Into(MAX("u16"), "u128")
      [] self = "Bit32" -> Into(MAX("u32"), "u128")
      [] self = "Bit64" -> Into(MAX("u64"), "u128")

\* Bits::byte_len
byte_len(self) == to_u8(Bits, self)

\* Bits::bit_len
bit_len(self) == byte_len(self) * 8

----------------------------------------------------------------------------
(* Anchors *)

WitnessTxids == {"txA", "txB"}
MpcProofs == {"mpcA", "mpcB"}

\* dbc::Anchor: the witness txid, the MPC proof and the DBC proof
DbcAnchors(D) == [txid : WitnessTxids, mpc_proof : MpcProofs, dbc_proof : {D}]

\* enum AnchorSet
AnchorSet ==
    [kind : {"Taptet"}, a : DbcAnchors("TapretProof")]
    \cup [kind : {"Opret"}, a : DbcAnchors("OpretProof")]
    \cup [kind : {"Dual"}, tapret : DbcAnchors("TapretProof"),
          opret : DbcAnchors("OpretProof")]

\* enum Anchor: Bitcoin(AnchorSet) | Liquid(AnchorSet)
Anchor == [layer1 : {d.variant : d \in Layer1}, set : AnchorSet]

\* MergeError
MergeError == {"MpcMismatch", "ProofMismatch"}

MergeOk(val) == [ok |-> TRUE, val |-> val]
MergeErr(error) == [ok |-> FALSE, error |-> error]

\* Anchor::layer1
layer1(self) == self.layer1

\* AnchorSet::txid with the guard of the Dual arm dropped
txid_dual_unguarded(self) ==
    CASE self.kind = "Taptet" -> Some(self.a.txid)
      [] self.kind = "Opret" -> Some(self.a.txid)
      [] self.kind = "Dual" -> Some(self.tapret.txid)

\* AnchorSet::txid
txid(self) ==
    CASE self.kind = "Taptet" -> Some(self.a.txid)
      [] self.kind = "Opret" -> Some(self.a.txid)
      [] self.kind = "Dual" /\ self.tapret.txid = self.opret.txid -> Some(self.tapret.txid)
      [] OTHER -> NoBound

\* what the merge of the two inner anchor sets may return
InnerMergeResults ==
    {MergeOk(set) : set \in AnchorSet} \cup {MergeErr(e) : e \in MergeError}

NotCalled == [called |-> FALSE]

\* Result::map(Anchor::Bitcoin) / Result::map(Anchor::Liquid)
map_layer(inner, layer) ==
    IF inner.ok THEN MergeOk([layer1 |-> layer, set |-> inner.val]) ELSE inner

\* Anchor::merge_reveal that merges whatever the layers are
merge_reveal_any_layer(self, other, inner) ==
    [called |-> TRUE, inner |-> [called |-> TRUE, result |-> inner],
     result |-> map_layer(inner, self.layer1)]

\* Anchor::merge_reveal; inner is what anchor.merge_reveal(other) returns
\* when the matching arm calls it
merge_reveal(self, other, inner) ==
    CASE self.layer1 = "Bitcoin" /\ other.layer1 = "Bitcoin" ->
            [called |-> TRUE, inner |-> [called |-> TRUE, result |-> inner],
             result |-> map_layer(inner, "Bitcoin")]
      [] self.layer1 = "Liquid" /\ other.layer1 = "Liquid" ->
            [called |-> TRUE, inner |-> [called |-> TRUE, result |-> inner],
             result |-> map_layer(inner, "Liquid")]
      [] OTHER ->
            [called |-> TRUE, inner |-> NotCalled,
             result |-> MergeErr("ProofMismatch")]

----------------------------------------------------------------------------
(* Witness anchors *)

\* WitnessOrd: the position of a witness in the chain
WitnessOrd == {"Archived", "Mined", "OffChain"}

\* WitnessId: the layer 1 and the witness txid
WitnessId == [layer1 : {d.variant : d \in Layer1}, txid : {"txA"}]
             \cup {[layer1 |-> "Bitcoin", txid |-> "txB"]}

\* struct WitnessAnchor
WitnessAnchor == [witness_ord : WitnessOrd, witness_id : WitnessId]

\* the total orders on a finite set, each as the sequence of its elements
\* in ascending order
TotalOrders(S) ==
    { q \in [1..Cardinality(S) -> S] : \A v \in S : \E i \in DOMAIN q : q[i] = v }

\* Ord::cmp of two elements under the order q
cmp_in(q, x, y) ==
    LET ix == CHOOSE i \in DOMAIN q : q[i] = x
        iy == CHOOSE i \in DOMAIN q : q[i] = y
    IN IF ix < iy THEN "Less" ELSE IF ix > iy THEN "Greater" ELSE "Equal"

\* Ord::cmp for WitnessAnchor with the id compared before the ord
cmp_id_first(self, other, orders) ==
    IF self = other THEN "Equal"
    ELSE LET by_id == cmp_in(orders.id, self.witness_id, other.witness_id) IN
         IF by_id # "Equal" THEN by_id
         ELSE cmp_in(orders.ord, self.witness_ord, other.witness_ord)

\* <WitnessAnchor as Ord>::cmp
cmp(self, other, orders) ==
    IF self = other THEN "Equal"
    ELSE LET by_ord == cmp_in(orders.ord, self.witness_ord, other.witness_ord) IN
         CASE by_ord = "Less" -> "Less"
           [] by_ord = "Greater" -> "Greater"
           [] by_ord = "Equal" ->
                 cmp_in(orders.id, self.witness_id, other.witness_id)

----------------------------------------------------------------------------
(* State data: VoidState, RevealedData and ConcealedData *)

\* struct VoidState(())
VoidState == {"void"}

\* DataState: a SmallBlob
DataState == {<<>>, <<7>>, <<7, 9>>}

Salts == { <<0, 0, 0, 0, 0, 0, 0, 0>>, <<513, 0, 0, 0, 0, 0, 0, 1>> }

\* struct RevealedData
RevealedData == [value : DataState, salt : Salts]

\* CommitmentId::TAG of ConcealedData
TAG == "urn:lnp-bp:rgb:state-data#2024-02-12"

\* u16::strict_encode: the length prefix of a SmallBlob, little-endian
u16_strict_encode(n) == <<n % 256, n \div 256>>

\* u128::strict_encode: sixteen bytes, little-endian
u128_strict_encode(v) ==
    [j \in 1..16 |-> IF j % 2 = 1 THEN v[(j + 1) \div 2] % 256 ELSE v[j \div 2] \div 256]

\* the strict serialization of RevealedData: value, then salt
strict_serialize(self) ==
    u16_strict_encode(Len(self.value)) \o self.value \o u128_strict_encode(self.salt)

\* the messages the tagged hash can be asked about
CommitMessages == { [tag |-> TAG, msg |-> strict_serialize(r)] : r \in RevealedData }

\* ConcealedData: a 32-byte digest
ConcealedData == {"digest0", "digest1"}

\* CommitId::commit_id: the tagged hash of the strict serialization
commit_id(self, hash) == hash[[tag |-> TAG, msg |-> strict_serialize(self)]]

\* conceal that leaves the salt out of the commitment
conceal_unsalted(self, hash) ==
    commit_id([value |-> self.value, salt |-> <<0, 0, 0, 0, 0, 0, 0, 0>>], hash)

\* <RevealedData as Conceal>::conceal
conceal(self, hash) == commit_id(self, hash)

\* <VoidState as Conceal>::conceal
VoidState_conceal(self) == self

\* Ord::cmp of two byte strings (Vec<u8>): the first differing byte decides,
\* and a proper prefix comes first
blob_cmp(x, y) ==
    LET n == IF Len(x) < Len(y) THEN Len(x) ELSE Len(y)
        diff == {i \in 1..n : x[i] # y[i]}
    IN IF diff # {}
       THEN LET k == CHOOSE i \in diff : \A j \in diff : i <= j IN
            IF x[k] < y[k] THEN "Less" ELSE "Greater"
       ELSE IF Len(x) < Len(y) THEN "Less"
       ELSE IF Len(x) > Len(y) THEN "Greater" ELSE "Equal"

\* Ord::cmp of two u128 values
u128_cmp(x, y) ==
    IF NumLt(x, y) THEN "Less" ELSE IF NumLt(y, x) THEN "Greater" ELSE "Equal"

\* Ord::cmp for RevealedData with the salt compared before the value
RevealedData_cmp_salt_first(self, other) ==
    LET by_salt == u128_cmp(self.salt, other.salt) IN
    IF by_salt = "Equal" THEN blob_cmp(self.value, other.value) ELSE by_salt

\* <RevealedData as Ord>::cmp
RevealedData_cmp(self, other) ==
    LET by_value == blob_cmp(self.value, other.value) IN
    IF by_value = "Equal" THEN u128_cmp(self.salt, other.salt) ELSE by_value

\* values and salts whose order is decided at different places
DataStateSamples == DataState \cup {<<8>>, <<7, 3>>}
SaltSamples == Salts \cup { <<514, 0, 0, 0, 0, 0, 0, 0>> }

----------------------------------------------------------------------------
(* lnp::application::PeerConnection *)

MaxTraffic == 2

FtcpSession == "Raw<NoEncryption, ftcp::Connection>"
ZmqSession == "Raw<NoEncryption, zmqsocket::Connection>"

\* the concrete types behind Box<dyn Session>
SessionTypes == {FtcpSession, ZmqSession, "Raw<Transcoder, ftcp::Connection>"}

\* enum Messages, as far as the traffic is concerned
Messages == {"Ping", "Pong"}

\* Messages::create_unmarshaller
create_unmarshaller == "Unmarshaller<Messages>"

\* PeerConnection::with
with(session) ==
    [awaiting_pong |-> FALSE, unmarshaller |-> create_unmarshaller,
     session |-> session]

\* PeerConnection::connect; endpoint is what to_node_endpoint returned and
\* session what endpoint.connect(local) returned
connect(endpoint, session) ==
    IF ~endpoint.some THEN [ok |-> FALSE, error |-> "InvalidEndpoint"]
    ELSE IF ~session.ok THEN session
    ELSE [ok |-> TRUE,
          val |-> [session |-> session.val, awaiting_pong |-> FALSE,
                   unmarshaller |-> create_unmarshaller]]

\* PeerConnection::accept; session is what endpoint.accept(local) returned
accept(endpoint, session) ==
    IF ~endpoint.some THEN [ok |-> FALSE, error |-> "InvalidEndpoint"]
    ELSE IF ~session.ok THEN session
    ELSE [ok |-> TRUE,
          val |-> [session |-> session.val, awaiting_pong |-> FALSE,
                   unmarshaller |-> create_unmarshaller]]

\* Any::downcast_ref::<T>: Some exactly for a session of type T
downcast_ref(session, T) == IF session = T THEN Some(session) ELSE NoBound

\* Box<dyn Any>::downcast::<T>: Ok exactly for a session of type T
downcast(session, T) ==
    IF session = T THEN [ok |-> TRUE, val |-> session]
    ELSE [ok |-> FALSE, val |-> session]

\* Split for Raw<NoEncryption, C>: the input and the output half
session_split(session) ==
    [input |-> [of |-> session, half |-> "Input"],
     output |-> [of |-> session, half |-> "Output"]]

SplitPanic(msg) == [panic |-> TRUE, msg |-> msg]

\* the first part of split: the two halves of the session, or a panic
split_session(session) ==
    IF downcast_ref(session, FtcpSession).some
    THEN LET owned == downcast(session, FtcpSession) IN
         IF owned.ok
         THEN [panic |-> FALSE, halves |-> session_split(owned.val)]
         ELSE SplitPanic("Must not fail; we just ensured that with downcast_ref")
    ELSE IF downcast_ref(session, ZmqSession).some
    THEN LET owned == downcast(session, FtcpSession) IN
         IF owned.ok
         THEN [panic |-> FALSE, halves |-> session_split(owned.val)]
         ELSE SplitPanic("Must not fail; we just ensured that with downcast_ref")
    ELSE SplitPanic("Impossible to split this type of Session")

\* Arc::new(Mutex::new(v)): a fresh cell on the heap, and the reference to it
arc_new(cells, v) == [cells |-> Append(cells, v), ref |-> Len(cells) + 1]

\* split giving each half a cell of its own
split_two_cells(self, cells) ==
    LET parts == split_session(self.session) IN
    IF parts.panic THEN [panic |-> TRUE, msg |-> parts.msg, cells |-> cells]
    ELSE LET first == arc_new(cells, self.awaiting_pong)
             second == arc_new(first.cells, self.awaiting_pong)
         IN [panic |-> FALSE, cells |-> second.cells,
             left |-> [receiver |-> parts.halves.input,
                       awaiting_pong |-> first.ref,
                       unmarshaller |-> self.unmarshaller],
             right |-> [sender |-> parts.halves.output,
                        awaiting_pong |-> second.ref]]

\* <PeerConnection as Bipolar>::split
split(self, cells) ==
    LET parts == split_session(self.session) IN
    IF parts.panic THEN [panic |-> TRUE, msg |-> parts.msg, cells |-> cells]
    ELSE LET awaiting_pong == arc_new(cells, self.awaiting_pong) IN
         [panic |-> FALSE, cells |-> awaiting_pong.cells,
          left |-> [receiver |-> parts.halves.input,
                    awaiting_pong |-> awaiting_pong.ref,
                    unmarshaller |-> self.unmarshaller],
          right |-> [sender |-> parts.halves.output,
                     awaiting_pong |-> awaiting_pong.ref]]

----------------------------------------------------------------------------
(* Inputs of the decoder: tag bytes around the four known tags, and max     *)
(* fields whose bytes are 0x00 or 0xFF, with a varied lowest byte.         *)

TagSamples == {0, 1, 2, 127, 253, 254, 255}
LowByteSamples == {0, 1, 42, 254, 255}
MaxFieldSamples ==
    { <<lo>> \o hi : lo \in LowByteSamples, hi \in [1..7 -> {0, 255}] }

DataSamples ==
    { <<tag>> \o m : tag \in TagSamples, m \in MaxFieldSamples }
    \cup { <<>>, <<254>>, <<255, 255, 0, 0>> }

----------------------------------------------------------------------------
(* validation::Status *)

MaxEntries == 4
MaxOperand == 1

Txids == {"txA", "txB"}
Failures == {"SchemaRootHierarchy", "SchemaTypeSystem"}
Warnings == {"ExcessiveNode"}
Infos == {"UncheckableConfidentialState"}

StatusFields == {"unresolved_txids", "unmined_endpoint_txids", "failures", "warnings", "info"}

\* Status::new(), the derived Default
new ==
    [unresolved_txids |-> <<>>, unmined_endpoint_txids |-> <<>>,
     failures |-> <<>>, warnings |-> <<>>, info |-> <<>>]

\* Status::add_failure
add_failure(self, failure) == [self EXCEPT !.failures = Append(@, failure)]

\* add_warning pushing onto failures
add_warning_as_failure(self, warning) == [self EXCEPT !.failures = Append(@, warning)]

\* Status::add_warning
add_warning(self, warning) == [self EXCEPT !.warnings = Append(@, warning)]

\* Status::add_info
add_info(self, info) == [self EXCEPT !.info = Append(@, info)]

\* add_assign assigning the failures of rhs where it should extend
add_assign_overwrite(self, rhs) ==
    [unresolved_txids |-> self.unresolved_txids \o rhs.unresolved_txids,
     unmined_endpoint_txids |-> self.unmined_endpoint_txids \o rhs.unmined_endpoint_txids,
     failures |-> rhs.failures,
     warnings |-> self.warnings \o rhs.warnings,
     info |-> self.info \o rhs.info]

\* <Status as AddAssign>::add_assign: self += rhs
add_assign(self, rhs) ==
    [unresolved_txids |-> self.unresolved_txids \o rhs.unresolved_txids,
     unmined_endpoint_txids |-> self.unmined_endpoint_txids \o rhs.unmined_endpoint_txids,
     failures |-> self.failures \o rhs.failures,
     warnings |-> self.warnings \o rhs.warnings,
     info |-> self.info \o rhs.info]

\* validity consulting unresolved_txids where it should consult unmined_endpoint_txids
validity_swapped(self) ==
    IF self.failures = <<>>
    THEN IF self.unresolved_txids = <<>> THEN "Valid" ELSE "ValidExceptEndpoints"
    ELSE IF self.unmined_endpoint_txids = <<>> THEN "Invalid" ELSE "UnresolvedTransactions"

\* Status::validity
validity(self) ==
    IF self.failures = <<>>
    THEN IF self.unmined_endpoint_txids = <<>> THEN "Valid" ELSE "ValidExceptEndpoints"
    ELSE IF self.unresolved_txids = <<>> THEN "Invalid" ELSE "UnresolvedTransactions"

\* number of entries a Status holds
Entries(self) ==
    Len(self.unresolved_txids) + Len(self.unmined_endpoint_txids)
        + Len(self.failures) + Len(self.warnings) + Len(self.info)

SeqsUpTo(S, n) == UNION { [1..k -> S] : k \in 0..n }

\* the Status values with at most n entries
StatusesUpTo(n) ==
    { s \in [unresolved_txids : SeqsUpTo(Txids, n),
             unmined_endpoint_txids : SeqsUpTo(Txids, n),
             failures : SeqsUpTo(Failures, n),
             warnings : SeqsUpTo(Warnings, n),
             info : SeqsUpTo(Infos, n)] : Entries(s) <= n }

----------------------------------------------------------------------------
(* validation::CheckedConsignment *)

NumIds == 2
NumBodies == 3

Ids == 0..(NumIds - 1)
Bodies == 0..(NumBodies - 1)

None == [some |-> FALSE, val |-> [body |-> 0]]

\* the operations and bundles a provider may hand out
Entities == { [body |-> n] : n \in Bodies }
OptionEntity == {None} \cup { Some(e) : e \in Entities }

\* Operation::id(): the commitment id recomputed from the operation's content
id(op) == op.body % NumIds

\* TransitionBundle::bundle_id(): the commitment id recomputed from the bundle
bundle_id(bundle) == bundle.body % NumIds

\* operation handing the provider's answer through
operation_unchecked(consignment, opid) == consignment[opid]

\* CheckedConsignment::operation
operation(consignment, opid) ==
    LET found == consignment[opid] IN
    IF found.some /\ id(found.val) = opid THEN found ELSE None

\* CheckedConsignment::bundle
bundle(consignment, bid) ==
    LET found == consignment[bid] IN
    IF found.some /\ bundle_id(found.val) = bid THEN found ELSE None

\* what the provider holds besides operations and bundles: the schema, the
\* asset tags, the genesis, the terminals and the bundle ids it lists
ProviderFixed ==
    { [schema |-> "schemaA", asset_tags |-> <<>>, genesis |-> "genesisA",
       terminals |-> {}, bundle_ids |-> <<>>],
      [schema |-> "schemaB", asset_tags |-> <<"tag">>, genesis |-> "genesisB",
       terminals |-> {<<0, "seal">>}, bundle_ids |-> <<1, 0>>] }

NoWitness == [some |-> FALSE, val |-> ""]
OptionWitness == {NoWitness, Some("txA")}

\* the rest of a ConsignmentApi provider: grip and op_witness_id answer by id
ProviderApis ==
    { [schema |-> f.schema, asset_tags |-> f.asset_tags, genesis |-> f.genesis,
       terminals |-> f.terminals, bundle_ids |-> f.bundle_ids,
       grip |-> g, op_witness_id |-> w] :
         f \in ProviderFixed, g \in [Ids -> OptionEntity], w \in [Ids -> OptionWitness] }

\* CheckedConsignment::schema
schema(consignment) == consignment.schema

\* CheckedConsignment::asset_tags
asset_tags(consignment) == consignment.asset_tags

\* CheckedConsignment::genesis
genesis(consignment) == consignment.genesis

\* CheckedConsignment::terminals
terminals(consignment) == consignment.terminals

\* CheckedConsignment::bundle_ids
bundle_ids(consignment) == consignment.bundle_ids

\* grip filtering the provider's answer by its bundle id, as bundle does
grip_checked(consignment, bid) ==
    LET found == consignment.grip[bid] IN
    IF found.some /\ bundle_id(found.val) = bid THEN found ELSE None

\* CheckedConsignment::grip
grip(consignment, bid) == consignment.grip[bid]

\* CheckedConsignment::op_witness_id
op_witness_id(consignment, opid) == consignment.op_witness_id[opid]

----------------------------------------------------------------------------
(* Specifications.  Each applies one operation to inputs drawn by Init; the *)
(* variables of the other operations stay at rest.                         *)

ChkAtRest ==
    /\ chk_pc = "rest"
    /\ chk_I = "u8"
    /\ chk_self = NoValue
    /\ chk_T = "u8"
    /\ chk_count = <<0>>
    /\ chk_result = CheckOk

DecAtRest ==
    /\ dec_pc = "rest"
    /\ dec_I = "u8"
    /\ dec_data = <<>>
    /\ dec_result = DecodeOk(NoValue)
    /\ dec_bytes = <<>>

StAtRest ==
    /\ status = new
    /\ last_op = "new"
    /\ last_rhs = new
    /\ added_failures = <<>>

AlgAtRest ==
    /\ alg_pc = "rest"
    /\ alg_a = new
    /\ alg_b = new
    /\ alg_c = new
    /\ sums = [ab |-> new, ba |-> new, ab_c |-> new, a_bc |-> new, a_e |-> new, e_a |-> new]

ConsAtRest ==
    /\ prov_operations = [i \in Ids |-> None]
    /\ prov_bundles = [i \in Ids |-> None]
    /\ prov_api = <<>>
    /\ cons_call = [method |-> "new", id |-> 0]
    /\ cons_result = None

CoreAtRest == ChkAtRest /\ DecAtRest /\ StAtRest /\ AlgAtRest /\ ConsAtRest

EncAtRest ==
    /\ enc_pc = "rest"
    /\ enc_I = "u8"
    /\ enc_self = NoValue
    /\ enc_bytes = <<>>
    /\ enc_back = DecodeOk(NoValue)
    /\ enc_check = NotCalled

EnmAtRest ==
    /\ enm_pc = "rest"
    /\ enm_type = "Bits"
    /\ enm_byte = 0
    /\ enm_result = EnumErr("")
    /\ enm_bytes = <<>>
    /\ enm_I = "u8"
    /\ enm_bits = [called |-> FALSE]

AncAtRest ==
    /\ anc_self = [layer1 |-> "rest"]
    /\ anc_other = [layer1 |-> "rest"]
    /\ anc_txid = [called |-> FALSE]
    /\ anc_merged = [called |-> FALSE]

WitAtRest ==
    /\ wit_pc = "rest"
    /\ wit_orders = <<>>
    /\ wit_x = <<>>
    /\ wit_y = <<>>
    /\ wit_z = <<>>
    /\ wit_cmp = <<>>

DatAtRest ==
    /\ dat_pc = "rest"
    /\ dat_r1 = <<>>
    /\ dat_r2 = <<>>
    /\ dat_concealed = <<>>
    /\ dat_hash = <<>>
    /\ dat_void = NotCalled
    /\ dat_cmp = NotCalled

PeerAtRest ==
    /\ peer_pc = "rest"
    /\ peer_conn = NotCalled
    /\ peer_recv = NotCalled
    /\ peer_send = NotCalled
    /\ peer_cells = <<>>
    /\ peer_wire = <<>>

ExtAtRest ==
    EncAtRest /\ EnmAtRest /\ AncAtRest /\ WitAtRest /\ DatAtRest /\ PeerAtRest

\* -- Occurences::check ------------------------------------------------------

InitCheck ==
    /\ chk_pc = "call"
    /\ chk_I \in UnsignedTypes
    /\ chk_self \in Occurences(chk_I)
    /\ chk_T \in { t \in NumberTypes : Rank(t) >= Rank(chk_I) }
    /\ chk_count \in Values(chk_T)
    /\ chk_result = CheckOk
    /\ DecAtRest /\ StAtRest /\ AlgAtRest /\ ConsAtRest /\ ExtAtRest

Check ==
    /\ chk_pc = "call"
    /\ chk_result' = check(chk_self, chk_I, chk_T, chk_count)
    /\ chk_pc' = "return"
    /\ UNCHANGED <<chk_I, chk_self, chk_T, chk_count>>
    /\ UNCHANGED <<dec_vars, st_vars, alg_vars, cons_vars, ext_vars>>

NextCheck == Check

SpecCheck == InitCheck /\ [][NextCheck]_vars

\* -- StrictDecode for Occurences -------------------------------------------

InitDecode ==
    /\ dec_pc = "call"
    /\ dec_I \in UnsignedTypes
    /\ dec_data \in DataSamples
    /\ dec_result = DecodeOk(NoValue)
    /\ dec_bytes = <<>>
    /\ ChkAtRest /\ StAtRest /\ AlgAtRest /\ ConsAtRest /\ ExtAtRest

StrictDecode ==
    /\ dec_pc = "call"
    /\ dec_result' = strict_decode(dec_I, dec_data)
    /\ dec_pc' = "return"
    /\ UNCHANGED <<dec_I, dec_data, dec_bytes>>
    /\ UNCHANGED <<chk_vars, st_vars, alg_vars, cons_vars, ext_vars>>

\* strict_encode of the value the decoder returned
EncodeDecoded ==
    /\ dec_pc = "return"
    /\ dec_result.kind = "Ok"
    /\ dec_bytes' = strict_encode(dec_result.value, dec_I)
    /\ dec_pc' = "encoded"
    /\ UNCHANGED <<dec_I, dec_data, dec_result>>
    /\ UNCHANGED <<chk_vars, st_vars, alg_vars, cons_vars, ext_vars>>

NextDecode == StrictDecode \/ EncodeDecoded

SpecDecode == InitDecode /\ [][NextDecode]_vars

\* -- Status: a validator accumulating into one Status ------------------------

Init ==
    /\ status = new
    /\ last_op = "new"
    /\ last_rhs = new
    /\ added_failures = <<>>
    /\ ChkAtRest /\ DecAtRest /\ AlgAtRest /\ ConsAtRest /\ ExtAtRest

Rest == UNCHANGED <<chk_vars, dec_vars, alg_vars, cons_vars, ext_vars>>

AddFailure ==
    \E failure \in Failures :
        /\ Entries(status) < MaxEntries
        /\ status' = add_failure(status, failure)
        /\ last_op' = "add_failure"
        /\ last_rhs' = new
        /\ added_failures' = added_failures \o <<failure>>
        /\ Rest

AddWarning ==
    \E warning \in Warnings :
        /\ Entries(status) < MaxEntries
        /\ status' = add_warning(status, warning)
        /\ last_op' = "add_warning"
        /\ last_rhs' = new
        /\ UNCHANGED added_failures
        /\ Rest

AddInfo ==
    \E info \in Infos :
        /\ Entries(status) < MaxEntries
        /\ status' = add_info(status, info)
        /\ last_op' = "add_info"
        /\ last_rhs' = new
        /\ UNCHANGED added_failures
        /\ Rest

AddAssign ==
    \E rhs \in StatusesUpTo(MaxOperand) :
        /\ Entries(status) + Entries(rhs) <= MaxEntries
        /\ status' = add_assign(status, rhs)
        /\ last_op' = "add_assign"
        /\ last_rhs' = rhs
        /\ added_failures' = added_failures \o rhs.failures
        /\ Rest

Next == AddFailure \/ AddWarning \/ AddInfo \/ AddAssign

Spec == Init /\ [][Next]_vars

\* -- Status: the algebra of += ----------------------------------------------

InitMonoid ==
    /\ alg_pc = "call"
    /\ alg_a \in StatusesUpTo(MaxOperand)
    /\ alg_b \in StatusesUpTo(MaxOperand)
    /\ alg_c \in StatusesUpTo(MaxOperand)
    /\ sums = [ab |-> new, ba |-> new, ab_c |-> new, a_bc |-> new, a_e |-> new, e_a |-> new]
    /\ ChkAtRest /\ DecAtRest /\ StAtRest /\ ConsAtRest /\ ExtAtRest

Sum ==
    /\ alg_pc = "call"
    /\ sums' = [ab |-> add_assign(alg_a, alg_b),
                ba |-> add_assign(alg_b, alg_a),
                ab_c |-> add_assign(add_assign(alg_a, alg_b), alg_c),
                a_bc |-> add_assign(alg_a, add_assign(alg_b, alg_c)),
                a_e |-> add_assign(alg_a, new),
                e_a |-> add_assign(new, alg_a)]
    /\ alg_pc' = "done"
    /\ UNCHANGED <<alg_a, alg_b, alg_c>>
    /\ UNCHANGED <<chk_vars, dec_vars, st_vars, cons_vars, ext_vars>>

NextMonoid == Sum

SpecMonoid == InitMonoid /\ [][NextMonoid]_vars

\* -- CheckedConsignment over an arbitrary provider --------------------------

InitConsignment ==
    /\ prov_operations \in [Ids -> OptionEntity]
    /\ prov_bundles \in [Ids -> OptionEntity]
    /\ prov_api = <<>>
    /\ cons_call = [method |-> "new", id |-> 0]
    /\ cons_result = None
    /\ ChkAtRest /\ DecAtRest /\ StAtRest /\ AlgAtRest /\ ExtAtRest

CallOperation ==
    \E opid \in Ids :
        /\ cons_call' = [method |-> "operation", id |-> opid]
        /\ cons_result' = operation(prov_operations, opid)
        /\ UNCHANGED <<prov_operations, prov_bundles, prov_api>>
        /\ UNCHANGED <<chk_vars, dec_vars, st_vars, alg_vars, ext_vars>>

CallBundle ==
    \E bid \in Ids :
        /\ cons_call' = [method |-> "bundle", id |-> bid]
        /\ cons_result' = bundle(prov_bundles, bid)
        /\ UNCHANGED <<prov_operations, prov_bundles, prov_api>>
        /\ UNCHANGED <<chk_vars, dec_vars, st_vars, alg_vars, ext_vars>>

NextConsignment == CallOperation \/ CallBundle

SpecConsignment == InitConsignment /\ [][NextConsignment]_vars

\* -- CheckedConsignment: the methods handed through ---------------------------

InitPassThrough ==
    /\ prov_operations = [i \in Ids |-> None]
    /\ prov_bundles = [i \in Ids |-> None]
    /\ prov_api \in ProviderApis
    /\ cons_call = [method |-> "new", id |-> 0]
    /\ cons_result = None
    /\ ChkAtRest /\ DecAtRest /\ StAtRest /\ AlgAtRest /\ ExtAtRest

ConsRest ==
    /\ UNCHANGED <<prov_operations, prov_bundles, prov_api>>
    /\ UNCHANGED <<chk_vars, dec_vars, st_vars, alg_vars, ext_vars>>

CallSchema ==
    /\ cons_call' = [method |-> "schema", id |-> 0]
    /\ cons_result' = schema(prov_api)
    /\ ConsRest

CallAssetTags ==
    /\ cons_call' = [method |-> "asset_tags", id |-> 0]
    /\ cons_result' = asset_tags(prov_api)
    /\ ConsRest

CallGenesis ==
    /\ cons_call' = [method |-> "genesis", id |-> 0]
    /\ cons_result' = genesis(prov_api)
    /\ ConsRest

CallTerminals ==
    /\ cons_call' = [method |-> "terminals", id |-> 0]
    /\ cons_result' = terminals(prov_api)
    /\ ConsRest

CallBundleIds ==
    /\ cons_call' = [method |-> "bundle_ids", id |-> 0]
    /\ cons_result' = bundle_ids(prov_api)
    /\ ConsRest

CallGrip ==
    \E bid \in Ids :
        /\ cons_call' = [method |-> "grip", id |-> bid]
        /\ cons_result' = grip(prov_api, bid)
        /\ ConsRest

CallOpWitnessId ==
    \E opid \in Ids :
        /\ cons_call' = [method |-> "op_witness_id", id |-> opid]
        /\ cons_result' = op_witness_id(prov_api, opid)
        /\ ConsRest

NextPassThrough ==
    \/ CallSchema \/ CallAssetTags \/ CallGenesis \/ CallTerminals
    \/ CallBundleIds \/ CallGrip \/ CallOpWitnessId

SpecPassThrough == InitPassThrough /\ [][NextPassThrough]_vars

\* -- StrictEncode for Occurences, and the decoding of what it wrote ---------

InitCodec ==
    /\ enc_pc = "call"
    /\ enc_I \in UnsignedTypes
    /\ enc_self \in Occurences(enc_I)
    /\ enc_bytes = <<>>
    /\ enc_back = DecodeOk(NoValue)
    /\ enc_check = NotCalled
    /\ CoreAtRest /\ EnmAtRest /\ AncAtRest /\ WitAtRest /\ DatAtRest /\ PeerAtRest

StrictEncode ==
    /\ enc_pc = "call"
    /\ enc_bytes' = strict_encode(enc_self, enc_I)
    /\ enc_pc' = "encoded"
    /\ UNCHANGED <<enc_I, enc_self, enc_back, enc_check>>
    /\ UNCHANGED <<core_vars, enm_vars, anc_vars, wit_vars, dat_vars, peer_vars>>

DecodeEncoded ==
    /\ enc_pc = "encoded"
    /\ enc_back' = strict_decode(enc_I, enc_bytes)
    /\ enc_pc' = "done"
    /\ UNCHANGED <<enc_I, enc_self, enc_bytes, enc_check>>
    /\ UNCHANGED <<core_vars, enm_vars, anc_vars, wit_vars, dat_vars, peer_vars>>

\* check(count) on the value and on what came back from its encoding
CheckBoth ==
    /\ enc_pc = "done"
    /\ enc_back.kind = "Ok"
    /\ \E T \in { t \in NumberTypes : Rank(t) >= Rank(enc_I) } :
       \E count \in Values(T) :
          enc_check' = [called |-> TRUE, T |-> T, count |-> count,
                        of_self |-> check(enc_self, enc_I, T, count),
                        of_back |-> check(enc_back.value, enc_I, T, count)]
    /\ enc_pc' = "checked"
    /\ UNCHANGED <<enc_I, enc_self, enc_bytes, enc_back>>
    /\ UNCHANGED <<core_vars, enm_vars, anc_vars, wit_vars, dat_vars, peer_vars>>

NextCodec == StrictEncode \/ DecodeEncoded \/ CheckBoth

SpecCodec == InitCodec /\ [][NextCodec]_vars

\* -- strict encoding of the repr enums, and the measures of Bits -----------

InitEnum ==
    /\ enm_pc = "call"
    /\ enm_type \in EnumTypes
    /\ enm_byte \in 0..255
    /\ enm_result = EnumErr("")
    /\ enm_bytes = <<>>
    /\ enm_I \in UnsignedTypes
    /\ enm_bits = [called |-> FALSE]
    /\ CoreAtRest /\ EncAtRest /\ AncAtRest /\ WitAtRest /\ DatAtRest /\ PeerAtRest

EnumDecode ==
    /\ enm_pc = "call"
    /\ enm_result' = enum_strict_decode(EnumOf(enm_type), <<enm_byte>>)
    /\ enm_pc' = "decoded"
    /\ UNCHANGED <<enm_type, enm_byte, enm_bytes, enm_I, enm_bits>>
    /\ UNCHANGED <<core_vars, enc_vars, anc_vars, wit_vars, dat_vars, peer_vars>>

EnumEncode ==
    /\ enm_pc = "decoded"
    /\ enm_result.ok
    /\ enm_bytes' = enum_strict_encode(EnumOf(enm_type), enm_result.variant)
    /\ enm_pc' = "encoded"
    /\ UNCHANGED <<enm_type, enm_byte, enm_result, enm_I, enm_bits>>
    /\ UNCHANGED <<core_vars, enc_vars, anc_vars, wit_vars, dat_vars, peer_vars>>

BitsMeasures ==
    /\ ~enm_bits.called
    /\ enm_bits' = LET self == bits(enm_I) IN
                   [called |-> TRUE, self |-> self, byte_len |-> byte_len(self),
                    bit_len |-> bit_len(self), max_value |-> Bits_max_value(self)]
    /\ UNCHANGED <<enm_pc, enm_type, enm_byte, enm_result, enm_bytes, enm_I>>
    /\ UNCHANGED <<core_vars, enc_vars, anc_vars, wit_vars, dat_vars, peer_vars>>

NextEnum == EnumDecode \/ EnumEncode \/ BitsMeasures

SpecEnum == InitEnum /\ [][NextEnum]_vars

\* -- AnchorSet::txid and Anchor::merge_reveal -------------------------------

InitAnchor ==
    /\ anc_self \in Anchor
    /\ anc_other \in Anchor
    /\ anc_txid = NotCalled
    /\ anc_merged = NotCalled
    /\ CoreAtRest /\ EncAtRest /\ EnmAtRest /\ WitAtRest /\ DatAtRest /\ PeerAtRest

\* self.txid(), reaching AnchorSet::txid through Deref
CallTxid ==
    /\ ~anc_txid.called
    /\ anc_txid' = [called |-> TRUE, result |-> txid(anc_self.set)]
    /\ UNCHANGED <<anc_self, anc_other, anc_merged>>
    /\ UNCHANGED <<core_vars, enc_vars, enm_vars, wit_vars, dat_vars, peer_vars>>

CallMergeReveal ==
    /\ ~anc_merged.called
    /\ \E inner \in InnerMergeResults :
          anc_merged' = merge_reveal(anc_self, anc_other, inner)
    /\ UNCHANGED <<anc_self, anc_other, anc_txid>>
    /\ UNCHANGED <<core_vars, enc_vars, enm_vars, wit_vars, dat_vars, peer_vars>>

NextAnchor == CallTxid \/ CallMergeReveal

SpecAnchor == InitAnchor /\ [][NextAnchor]_vars

\* -- Ord for WitnessAnchor ----------------------------------------------------

InitWitness ==
    /\ wit_pc = "call"
    /\ wit_orders \in [ord : TotalOrders(WitnessOrd), id : TotalOrders(WitnessId)]
    /\ wit_x \in WitnessAnchor
    /\ wit_y \in WitnessAnchor
    /\ wit_z \in WitnessAnchor
    /\ wit_cmp = <<>>
    /\ CoreAtRest /\ EncAtRest /\ EnmAtRest /\ AncAtRest /\ DatAtRest /\ PeerAtRest

\* cmp on every pair of the three anchors
Compare ==
    /\ wit_pc = "call"
    /\ wit_cmp' = LET w == <<wit_x, wit_y, wit_z>> IN
                  [p \in (1..3) \X (1..3) |-> cmp(w[p[1]], w[p[2]], wit_orders)]
    /\ wit_pc' = "done"
    /\ UNCHANGED <<wit_orders, wit_x, wit_y, wit_z>>
    /\ UNCHANGED <<core_vars, enc_vars, enm_vars, anc_vars, dat_vars, peer_vars>>

NextWitness == Compare

SpecWitness == InitWitness /\ [][NextWitness]_vars

\* -- Conceal for RevealedData and VoidState ----------------------------------

InitData ==
    /\ dat_pc = "call"
    /\ dat_hash \in [CommitMessages -> ConcealedData]
    /\ dat_r1 \in RevealedData
    /\ dat_r2 \in RevealedData
    /\ dat_concealed = <<>>
    /\ dat_void = NotCalled
    /\ dat_cmp = NotCalled
    /\ CoreAtRest /\ EncAtRest /\ EnmAtRest /\ AncAtRest /\ WitAtRest /\ PeerAtRest

\* conceal() on each of the two revealed values
Conceal ==
    /\ dat_pc = "call"
    /\ dat_concealed' = <<conceal(dat_r1, dat_hash), conceal(dat_r2, dat_hash)>>
    /\ dat_pc' = "concealed"
    /\ UNCHANGED <<dat_hash, dat_r1, dat_r2, dat_void, dat_cmp>>
    /\ UNCHANGED <<core_vars, enc_vars, enm_vars, anc_vars, wit_vars, peer_vars>>

\* conceal() on the void state
ConcealVoid ==
    /\ ~dat_void.called
    /\ \E v \in VoidState :
          dat_void' = [called |-> TRUE, self |-> v, result |-> VoidState_conceal(v)]
    /\ UNCHANGED <<dat_pc, dat_hash, dat_r1, dat_r2, dat_concealed, dat_cmp>>
    /\ UNCHANGED <<core_vars, enc_vars, enm_vars, anc_vars, wit_vars, peer_vars>>

NextData == Conceal \/ ConcealVoid

SpecData == InitData /\ [][NextData]_vars

\* -- Ord for RevealedData -----------------------------------------------------

InitDataOrd ==
    /\ dat_pc = "call"
    /\ dat_hash = <<>>
    /\ dat_r1 \in [value : DataStateSamples, salt : SaltSamples]
    /\ dat_r2 \in [value : DataStateSamples, salt : SaltSamples]
    /\ dat_concealed = <<>>
    /\ dat_void = NotCalled
    /\ dat_cmp = NotCalled
    /\ CoreAtRest /\ EncAtRest /\ EnmAtRest /\ AncAtRest /\ WitAtRest /\ PeerAtRest

\* r1.cmp(&r2), and r1 == r2 as derived
DataCmp ==
    /\ dat_pc = "call"
    /\ dat_cmp' = [called |-> TRUE, result |-> RevealedData_cmp(dat_r1, dat_r2),
                   eq |-> (dat_r1 = dat_r2)]
    /\ dat_pc' = "compared"
    /\ UNCHANGED <<dat_hash, dat_r1, dat_r2, dat_concealed, dat_void>>
    /\ UNCHANGED <<core_vars, enc_vars, enm_vars, anc_vars, wit_vars, peer_vars>>

NextDataOrd == DataCmp

SpecDataOrd == InitDataOrd /\ [][NextDataOrd]_vars

\* -- PeerConnection: construction, traffic and split --------------------------

InitPeer ==
    /\ peer_pc = "none"
    /\ peer_conn = NotCalled
    /\ peer_recv = NotCalled
    /\ peer_send = NotCalled
    /\ peer_cells = <<>>
    /\ peer_wire = [sent |-> <<>>, received |-> <<>>]
    /\ CoreAtRest /\ EncAtRest /\ EnmAtRest /\ AncAtRest /\ WitAtRest /\ DatAtRest

PeerRest == UNCHANGED <<core_vars, enc_vars, enm_vars, anc_vars, wit_vars, dat_vars>>

\* what to_node_endpoint may return
Endpoints == {[some |-> FALSE, val |-> ""], Some("node")}
SessionResults ==
    {[ok |-> TRUE, val |-> t] : t \in SessionTypes}
    \cup {[ok |-> FALSE, error |-> "Transport"]}

With ==
    /\ peer_pc = "none"
    /\ \E session \in SessionTypes : peer_conn' = with(session)
    /\ peer_pc' = "connected"
    /\ UNCHANGED <<peer_recv, peer_send, peer_cells, peer_wire>>
    /\ PeerRest

Connect ==
    /\ peer_pc = "none"
    /\ \E endpoint \in Endpoints, session \in SessionResults :
          LET r == connect(endpoint, session) IN
          IF r.ok THEN peer_conn' = r.val /\ peer_pc' = "connected"
          ELSE peer_conn' = peer_conn /\ peer_pc' = r.error
    /\ UNCHANGED <<peer_recv, peer_send, peer_cells, peer_wire>>
    /\ PeerRest

Accept ==
    /\ peer_pc = "none"
    /\ \E endpoint \in Endpoints, session \in SessionResults :
          LET r == accept(endpoint, session) IN
          IF r.ok THEN peer_conn' = r.val /\ peer_pc' = "connected"
          ELSE peer_conn' = peer_conn /\ peer_pc' = r.error
    /\ UNCHANGED <<peer_recv, peer_send, peer_cells, peer_wire>>
    /\ PeerRest

\* send_message on the connection or on the sender half; the transport may
\* refuse the frame
SendMessage ==
    /\ peer_pc \in {"connected", "split"}
    /\ Len(peer_wire.sent) < MaxTraffic
    /\ \E message \in Messages, delivered \in BOOLEAN :
          peer_wire' = IF delivered
                       THEN [peer_wire EXCEPT !.sent = Append(@, message)]
                       ELSE peer_wire
    /\ UNCHANGED <<peer_pc, peer_conn, peer_recv, peer_send, peer_cells>>
    /\ PeerRest

\* recv_message on the connection or on the receiver half
RecvMessage ==
    /\ peer_pc \in {"connected", "split"}
    /\ Len(peer_wire.received) < MaxTraffic
    /\ \E message \in Messages :
          peer_wire' = [peer_wire EXCEPT !.received = Append(@, message)]
    /\ UNCHANGED <<peer_pc, peer_conn, peer_recv, peer_send, peer_cells>>
    /\ PeerRest

\* split consumes the connection
Split ==
    /\ peer_pc = "connected"
    /\ LET r == split(peer_conn, peer_cells) IN
       /\ peer_cells' = r.cells
       /\ IF r.panic
          THEN /\ peer_pc' = "panicked"
               /\ UNCHANGED <<peer_recv, peer_send>>
          ELSE /\ peer_pc' = "split"
               /\ peer_recv' = r.left
               /\ peer_send' = r.right
    /\ UNCHANGED <<peer_conn, peer_wire>>
    /\ PeerRest

NextPeer == With \/ Connect \/ Accept \/ SendMessage \/ RecvMessage \/ Split

SpecPeer == InitPeer /\ [][NextPeer]_vars

----------------------------------------------------------------------------
(* Properties of Occurences::check *)

\* the bounds of each variant as the documentation gives them
DocMin(self, I) ==
    IF self.kind \in {"Once", "OnceOrUpTo"} THEN FromU8(1, I) ELSE FromU8(0, I)

DocMax(self, I) ==
    IF self.kind \in {"Once", "NoneOrOnce"} THEN FromU8(1, I)
    ELSE IF self.max.some THEN self.max.val ELSE MAX(I)

InRange(lo, c, hi) == NumLe(Into(lo, "u128"), c) /\ NumLe(c, Into(hi, "u128"))

\* C1: for every variant and every count, check(count) returns Ok if and only
\* if min_value() <= count <= max_value(), where min is 1 for Once/OnceOrUpTo
\* and 0 otherwise, and max is 1 for Once/NoneOrOnce, m for Some(m) and I::MAX
\* for None.
C1_CheckOkIffInRange ==
    chk_pc = "return" =>
        /\ min_value(chk_self, chk_I) = DocMin(chk_self, chk_I)
        /\ max_value(chk_self, chk_I) = DocMax(chk_self, chk_I)
        /\ ~chk_result.panic
        /\ chk_result.ok <=>
              InRange(DocMin(chk_self, chk_I), Into(chk_count, "u128"),
                      DocMax(chk_self, chk_I))

\* an accepted count equal to the upper bound of OnceOrUpTo(Some(m)), m > 1
C1_Witness ==
    /\ chk_pc = "return"
    /\ chk_result.ok
    /\ chk_self.kind = "OnceOrUpTo"
    /\ chk_self.max.some
    /\ Into(chk_count, "u128") = Into(chk_self.max.val, "u128")
    /\ NumGt(chk_self.max.val, FromU8(1, chk_I))

\* C2: whenever check(count) fails, the error has min = min_value(),
\* max = max_value() and found = the original count, all widened to u128; a
\* count larger than I::MAX always fails, for every variant, with found equal
\* to that count.
C2_ErrorCarriesBoundsAndCount ==
    chk_pc = "return" =>
        /\ ~chk_result.panic
        /\ ~chk_result.ok =>
              /\ chk_result.min = Into(DocMin(chk_self, chk_I), "u128")
              /\ chk_result.max = Into(DocMax(chk_self, chk_I), "u128")
              /\ chk_result.found = Into(chk_count, "u128")
        /\ NumGt(Into(chk_count, "u128"), Into(MAX(chk_I), "u128")) => ~chk_result.ok

\* an unbounded variant rejecting a count of a wider type that exceeds I::MAX
C2_Witness ==
    /\ chk_pc = "return"
    /\ chk_self.kind = "NoneOrUpTo"
    /\ ~chk_self.max.some
    /\ chk_I = "u8"
    /\ chk_T = "u16"
    /\ chk_count = <<256>>
    /\ ~chk_result.ok
    /\ chk_result.found = Into(<<256>>, "u128")

----------------------------------------------------------------------------
(* Properties of Status *)

\* C3: validity() is determined only by the emptiness of failures,
\* unmined_endpoint_txids and unresolved_txids: no failures and no unmined
\* endpoint gives Valid; no failures and an unmined endpoint gives
\* ValidExceptEndpoints; failures and no unresolved txid gives Invalid;
\* failures and an unresolved txid gives UnresolvedTransactions.
C3_ValidityTruthTable ==
    /\ (status.failures = <<>> /\ status.unmined_endpoint_txids = <<>>)
          => validity(status) = "Valid"
    /\ (status.failures = <<>> /\ status.unmined_endpoint_txids # <<>>)
          => validity(status) = "ValidExceptEndpoints"
    /\ (status.failures # <<>> /\ status.unresolved_txids = <<>>)
          => validity(status) = "Invalid"
    /\ (status.failures # <<>> /\ status.unresolved_txids # <<>>)
          => validity(status) = "UnresolvedTransactions"

\* a failure and an unmined endpoint but no unresolved txid: Invalid
C3_Witness ==
    /\ status.failures # <<>>
    /\ status.unmined_endpoint_txids # <<>>
    /\ status.unresolved_txids = <<>>
    /\ validity(status) = "Invalid"

IsPrefix(s, t) == Len(s) <= Len(t) /\ SubSeq(t, 1, Len(s)) = s

\* C5: failures are accumulated, never dropped: after any sequence of
\* add_failure, add_warning, add_info and += the failures vector is the
\* concatenation, in operation order, of every failure added directly and of
\* the failures of every right-hand operand; and no operation removes,
\* replaces or reorders an entry already present in any of the five vectors.
C5_FailuresAccumulate ==
    /\ [](status.failures = added_failures)
    /\ [][\A f \in StatusFields : IsPrefix(status[f], status'[f])]_vars

\* a directly added failure followed by the failure of a += operand
C5_Witness ==
    /\ last_op = "add_assign"
    /\ status.failures = <<"SchemaTypeSystem", "SchemaRootHierarchy">>
    /\ status.unresolved_txids # <<>>

\* C8: adding warnings or info never changes the verdict: add_warning and
\* add_info leave failures, unresolved_txids and unmined_endpoint_txids
\* unchanged, so validity() is the same before and after; and two statuses
\* that differ only in warnings and info have the same validity().
C8_WarningsAndInfoKeepVerdict ==
    /\ [][last_op' \in {"add_warning", "add_info"} =>
            /\ status'.failures = status.failures
            /\ status'.unresolved_txids = status.unresolved_txids
            /\ status'.unmined_endpoint_txids = status.unmined_endpoint_txids
            /\ validity(status') = validity(status)]_vars
    /\ [](\A w \in SeqsUpTo(Warnings, 2), i \in SeqsUpTo(Infos, 2) :
            validity([status EXCEPT !.warnings = w, !.info = i]) = validity(status))

\* a warning added to a status that holds no failure and is Valid
C8_Witness ==
    /\ last_op = "add_warning"
    /\ status.warnings # <<>>
    /\ validity(status) = "Valid"

\* C6: Status with += is a monoid: (a+b)+c equals a+(b+c) field by field,
\* a + Status::new() equals a and Status::new() + a equals a.
C6_Monoid ==
    alg_pc = "done" =>
        /\ \A f \in StatusFields : sums.ab_c[f] = sums.a_bc[f]
        /\ sums.a_e = alg_a
        /\ sums.e_a = alg_a

\* three operands with one failure each, two of them distinct
C6_Witness ==
    /\ alg_pc = "done"
    /\ alg_a.failures = <<"SchemaRootHierarchy">>
    /\ alg_b.failures = <<"SchemaTypeSystem">>
    /\ alg_c.failures = <<"SchemaRootHierarchy">>
    /\ sums.ab_c.failures = <<"SchemaRootHierarchy", "SchemaTypeSystem", "SchemaRootHierarchy">>

\* C7: Status is commutative under +=: a+b equals b+a, comparing each of the
\* five vectors as the ordered vectors the type stores.
C7_Commutative ==
    alg_pc = "done" => \A f \in StatusFields : sums.ab[f] = sums.ba[f]

\* number of times x occurs in the vector s
Occurs(s, x) == Cardinality({ i \in 1..Len(s) : s[i] = x })

SameEntries(s, t) ==
    /\ Len(s) = Len(t)
    /\ \A i \in 1..Len(s) : Occurs(s, s[i]) = Occurs(t, s[i])

\* C7, amended: a+b and b+a hold the same entries the same number of times in
\* each of the five vectors, in an order that may differ.
C7_CommutativeUpToOrder ==
    alg_pc = "done" => \A f \in StatusFields : SameEntries(sums.ab[f], sums.ba[f])

\* two operands with distinct failures: the sums differ in order only
C7_Witness ==
    /\ alg_pc = "done"
    /\ alg_a.failures = <<"SchemaRootHierarchy">>
    /\ alg_b.failures = <<"SchemaTypeSystem">>
    /\ sums.ab.failures # sums.ba.failures

----------------------------------------------------------------------------
(* Properties of CheckedConsignment *)

\* C4: operation(id) returns Some(op) if and only if the provider's
\* operation(id) returns Some(op) with op.id() = id, and then returns that
\* same op; otherwise it returns None.  The same holds for bundle(id) with
\* bundle_id().
C4_CheckedLookup ==
    /\ cons_call.method = "operation" =>
          LET given == prov_operations[cons_call.id] IN
          IF given.some /\ id(given.val) = cons_call.id
          THEN cons_result = given
          ELSE cons_result = None
    /\ cons_call.method = "bundle" =>
          LET given == prov_bundles[cons_call.id] IN
          IF given.some /\ bundle_id(given.val) = cons_call.id
          THEN cons_result = given
          ELSE cons_result = None

\* a provider answering with an operation whose recomputed id is another one
C4_Witness ==
    /\ cons_call.method = "operation"
    /\ prov_operations[cons_call.id].some
    /\ id(prov_operations[cons_call.id].val) # cons_call.id
    /\ cons_result = None

----------------------------------------------------------------------------
(* Properties of the decoder *)

KnownTags == {0, 1, 254, 255}

\* the max field of a 9-byte input, as the u64 it encodes
MaxField(d) == u64_strict_decode(Tail(d)).val

\* C9: strict-decoding any 9-byte input as Occurences<I> returns either a
\* value or an error and never panics, whatever the tag byte and max field.
C9_DecodeNeverPanics ==
    (dec_pc = "return" /\ Len(dec_data) = 9) => dec_result.kind \in {"Ok", "Err"}

\* C10: strict-decoding an input whose tag byte is not one of 0x00, 0x01, 0xFE,
\* 0xFF and whose max field is within I's range panics with the message "New
\* occurrence types can't appear w/o this library to be aware of".
C10_UnknownTagPanics ==
    (/\ dec_pc = "return"
     /\ Len(dec_data) = 9
     /\ dec_data[1] \notin KnownTags
     /\ NumLe(MaxField(dec_data), Into(MAX(dec_I), "u64")))
    => /\ dec_result.kind = "Panic"
       /\ dec_result.msg = "New occurrence types can't appear w/o this library to be aware of"

\* the input of test_occurrence_panic_2 with a garbage tag: 02 FF FF 00 .. as u16
C10_Witness ==
    /\ dec_pc = "return"
    /\ dec_I = "u16"
    /\ dec_data = <<2, 255, 255, 0, 0, 0, 0, 0, 0>>
    /\ dec_result.kind = "Panic"

\* the variant a bounded tag stands for
KindOfTag(tag) == IF tag = 254 THEN "NoneOrUpTo" ELSE "OnceOrUpTo"

\* C13: with tag 0xFE or 0xFF the u64 max field v maps to the bound so: v <
\* I::MAX gives Some(v), v = I::MAX gives None.  The mapping depends on the
\* width I: FF FF 00 00 00 00 00 00 00 decodes to OnceOrUpTo(None) as
\* Occurences<u8> and to OnceOrUpTo(Some(255)) as Occurences<u64>; likewise
\* for u16::MAX read as u64.
C13_MaxFieldMapping ==
    (dec_pc = "return" /\ Len(dec_data) = 9 /\ dec_data[1] \in {254, 255}) =>
        LET v == MaxField(dec_data) IN
        /\ NumLt(v, Into(MAX(dec_I), "u64")) =>
              dec_result = DecodeOk([kind |-> KindOfTag(dec_data[1]),
                                     max |-> Some(SubSeq(v, 1, NumLimbs(dec_I)))])
        /\ v = Into(MAX(dec_I), "u64") =>
              dec_result = DecodeOk([kind |-> KindOfTag(dec_data[1]), max |-> NoBound])
        /\ (dec_data = <<255, 255, 0, 0, 0, 0, 0, 0, 0>> /\ dec_I = "u8") =>
              dec_result.value = [kind |-> "OnceOrUpTo", max |-> NoBound]
        /\ (dec_data = <<255, 255, 0, 0, 0, 0, 0, 0, 0>> /\ dec_I = "u64") =>
              dec_result.value = [kind |-> "OnceOrUpTo", max |-> Some(<<255, 0, 0, 0>>)]
        /\ (dec_data = <<255, 255, 255, 0, 0, 0, 0, 0, 0>> /\ dec_I = "u64") =>
              dec_result.value = [kind |-> "OnceOrUpTo", max |-> Some(<<LimbBase - 1, 0, 0, 0>>)]

\* u8::MAX in the max field, read as Occurences<u64>: a bound, not None
C13_Witness ==
    /\ dec_pc = "return"
    /\ dec_I = "u64"
    /\ dec_data = <<255, 255, 0, 0, 0, 0, 0, 0, 0>>
    /\ dec_result.kind = "Ok"
    /\ dec_result.value.max.some

\* C14: a max field greater than I::MAX gives the error ValueOutOfRange and no
\* value; the range check precedes the examination of the tag byte, so it
\* applies to every tag, Once and NoneOrOnce included.
C14_MaxFieldOutOfRange ==
    (/\ dec_pc = "return"
     /\ Len(dec_data) = 9
     /\ NumGt(MaxField(dec_data), Into(MAX(dec_I), "u64")))
    => /\ dec_result.kind = "Err"
       /\ dec_result.error.name = "ValueOutOfRange"
       /\ dec_result.error.found = Into(MaxField(dec_data), "u128")
       /\ dec_result.value = NoValue

\* tag Once with u64::MAX in the max field, read as Occurences<u8>
C14_Witness ==
    /\ dec_pc = "return"
    /\ dec_I = "u8"
    /\ dec_data = <<1, 255, 255, 255, 255, 255, 255, 255, 255>>
    /\ dec_result.kind = "Err"

----------------------------------------------------------------------------
(* Properties of the encoder *)

\* the bound the max field stands for: zero where the variant has none
DocMaxField(self, I) ==
    IF self.kind \in {"Once", "NoneOrOnce"} THEN <<0, 0, 0, 0>>
    ELSE IF self.max.some THEN Into(self.max.val, "u64") ELSE Into(MAX(I), "u64")

DocTag(self) ==
    CASE self.kind = "NoneOrOnce" -> 0 [] self.kind = "Once" -> 1
      [] self.kind = "NoneOrUpTo" -> 254 [] self.kind = "OnceOrUpTo" -> 255

\* C11: strict encoding always produces exactly 9 bytes, a tag byte followed
\* by a u64 little-endian max field: NoneOrOnce gives tag 0x00 and max 0, Once
\* tag 0x01 and max 0, NoneOrUpTo tag 0xFE and OnceOrUpTo tag 0xFF with max = m
\* for Some(m) and I::MAX for None; NoneOrUpTo::<u8>(None) is FE FF 00 .. 00 and
\* OnceOrUpTo::<u64>(None) is FF followed by eight FF bytes.
C11_EncodingBytes ==
    enc_pc \in {"encoded", "done"} =>
        /\ Len(enc_bytes) = 9
        /\ \A j \in 1..9 : enc_bytes[j] \in 0..255
        /\ enc_bytes[1] = DocTag(enc_self)
        /\ \A k \in 1..4 :
              enc_bytes[2 * k] + 256 * enc_bytes[2 * k + 1] = DocMaxField(enc_self, enc_I)[k]
        /\ (enc_I = "u8" /\ enc_self = [kind |-> "NoneOrUpTo", max |-> NoBound])
              => enc_bytes = <<254, 255, 0, 0, 0, 0, 0, 0, 0>>
        /\ (enc_I = "u64" /\ enc_self = [kind |-> "OnceOrUpTo", max |-> NoBound])
              => enc_bytes = <<255, 255, 255, 255, 255, 255, 255, 255, 255>>

\* OnceOrUpTo::<u32>(Some(42)) written as FF 2A 00 00 00 00 00 00 00
C11_Witness ==
    /\ enc_pc = "encoded"
    /\ enc_I = "u32"
    /\ enc_self = [kind |-> "OnceOrUpTo", max |-> Some(<<42, 0>>)]
    /\ enc_bytes = <<255, 42, 0, 0, 0, 0, 0, 0, 0>>

\* C12: codec round-trip: for every value x of Occurences<I>, OnceOrUpTo(Some(m))
\* and NoneOrUpTo(Some(m)) for every m of type I included,
\* strict_decode(strict_encode(x)) equals x.
C12_RoundTrip ==
    enc_pc = "done" => enc_back = DecodeOk(enc_self)

----------------------------------------------------------------------------
(* Properties of the repr enums *)

\* the wire bytes as documented, variant by variant
DocWireBytes ==
    [ Bits |-> { <<"Bit8", 1>>, <<"Bit16", 2>>, <<"Bit32", 4>>, <<"Bit64", 8>> },
      DigestAlgorithm |-> { <<"Sha256", 17>>, <<"Sha512", 18>>,
                            <<"Bitcoin160", 72>>, <<"Bitcoin256", 81>> },
      EllipticCurve |-> { <<"Secp256k1", 0>>, <<"Curve25519", 16>> },
      SignatureAlgorithm |-> { <<"Ecdsa", 0>>, <<"Schnorr", 1>>, <<"Ed25519", 2>> },
      PointSerialization |-> { <<"Uncompressed", 0>>, <<"Compressed", 1>>,
                               <<"SchnorrBip", 2>> },
      Layer1 |-> { <<"Bitcoin", 0>>, <<"Liquid", 1>> } ]

\* C15: for each of Bits, DigestAlgorithm, EllipticCurve, SignatureAlgorithm,
\* PointSerialization and Layer1, every declared byte decodes to exactly its
\* variant and that variant re-encodes to the same single byte; every other
\* byte value fails to decode with EnumValueNotKnown.
C15_EnumWireBytes ==
    LET doc == DocWireBytes[enm_type]
        declared == \E p \in doc : p[2] = enm_byte
    IN /\ enm_pc \in {"decoded", "encoded"} =>
            IF declared
            THEN enm_result.ok /\ <<enm_result.variant, enm_byte>> \in doc
            ELSE enm_result = EnumErr("EnumValueNotKnown")
       /\ enm_pc = "encoded" => declared /\ enm_bytes = <<enm_byte>>
       /\ (enm_pc = "decoded" /\ declared) => ENABLED EnumEncode

\* 0x51 decoded as DigestAlgorithm::Bitcoin256 and written back as 0x51
C15_Witness ==
    /\ enm_pc = "encoded"
    /\ enm_type = "DigestAlgorithm"
    /\ enm_result = EnumOk("Bitcoin256")
    /\ enm_bytes = <<81>>

\* 2^n - 1 as a u128, for n up to 128
Pow2Minus1(n) ==
    [i \in 1..8 |-> IF 16 * i <= n THEN LimbBase - 1
                    ELSE IF 16 * (i - 1) < n THEN 2 ^ (n - 16 * (i - 1)) - 1
                    ELSE 0]

\* C16: for every Bits variant byte_len() equals its wire byte value (1, 2, 4,
\* 8), bit_len() equals 8 * byte_len() and max_value() equals 2^bit_len() - 1;
\* for each I in u8, u16, u32, u64, I::bits().max_value() is I::MAX as u128.
C16_BitsMeasures ==
    enm_bits.called =>
        /\ <<enm_bits.self, enm_bits.byte_len>> \in DocWireBytes["Bits"]
        /\ enm_bits.bit_len = 8 * enm_bits.byte_len
        /\ enm_bits.max_value = Pow2Minus1(enm_bits.bit_len)
        /\ enm_bits.max_value = Into(MAX(enm_I), "u128")

\* u32::bits() is Bit32: 4 bytes, 32 bits, maximum 0xFFFFFFFF
C16_Witness ==
    /\ enm_bits.called
    /\ enm_I = "u32"
    /\ enm_bits.self = "Bit32"
    /\ enm_bits.byte_len = 4
    /\ enm_bits.max_value = <<65535, 65535, 0, 0, 0, 0, 0, 0>>

----------------------------------------------------------------------------
(* Properties of anchors *)

\* the dbc anchors an anchor set carries
InnerAnchors(set) ==
    IF set.kind = "Dual" THEN {set.tapret, set.opret} ELSE {set.a}

\* C17: AnchorSet::txid() is Some(txid) of the single inner anchor for Taptet
\* and Opret; for Dual it is Some(t) exactly when tapret.txid = opret.txid = t
\* and None otherwise: it never returns a txid that some inner anchor does
\* not carry.
C17_TxidOfEveryInnerAnchor ==
    anc_txid.called =>
        LET set == anc_self.set
            r == anc_txid.result
        IN /\ set.kind \in {"Taptet", "Opret"} => r = Some(set.a.txid)
           /\ set.kind = "Dual" =>
                 /\ \A t \in WitnessTxids :
                       r = Some(t) <=> (set.tapret.txid = t /\ set.opret.txid = t)
                 /\ set.tapret.txid # set.opret.txid => r = NoBound
           /\ r.some => \A inner \in InnerAnchors(set) : inner.txid = r.val

\* a Dual set whose anchors sit in different transactions has no txid
C17_Witness ==
    /\ anc_txid.called
    /\ anc_self.set.kind = "Dual"
    /\ anc_self.set.tapret.txid = "txA"
    /\ anc_self.set.opret.txid = "txB"
    /\ anc_txid.result = NoBound

\* C18: Anchor::merge_reveal(a, b) returns Err(ProofMismatch) when a and b are
\* on different layer-1 chains, without attempting the inner merge; on the
\* same layer it returns the result of the inner merge, a successful result
\* being an anchor on that layer and an inner error being returned unchanged.
C18_MergeRevealLayers ==
    anc_merged.called =>
        IF anc_self.layer1 # anc_other.layer1
        THEN /\ anc_merged.result = MergeErr("ProofMismatch")
             /\ ~anc_merged.inner.called
        ELSE /\ anc_merged.inner.called
             /\ LET inner == anc_merged.inner.result IN
                IF inner.ok
                THEN /\ anc_merged.result.ok
                     /\ anc_merged.result.val.layer1 = anc_self.layer1
                     /\ anc_merged.result.val.set = inner.val
                ELSE anc_merged.result = MergeErr(inner.error)

\* a Bitcoin anchor against a Liquid one: ProofMismatch, no inner merge
C18_Witness ==
    /\ anc_merged.called
    /\ anc_self.layer1 = "Bitcoin"
    /\ anc_other.layer1 = "Liquid"
    /\ anc_merged.result = MergeErr("ProofMismatch")
    /\ ~anc_merged.inner.called

----------------------------------------------------------------------------
(* Properties of witness anchors *)

\* a strictly before b in the order q
Before(q, a, b) ==
    \E i, j \in DOMAIN q : i < j /\ q[i] = a /\ q[j] = b

\* a before b, by witness_ord first and witness_id on a tie
LexBefore(a, b) ==
    \/ Before(wit_orders.ord, a.witness_ord, b.witness_ord)
    \/ /\ a.witness_ord = b.witness_ord
       /\ Before(wit_orders.id, a.witness_id, b.witness_id)

\* C19: WitnessAnchor is ordered lexicographically by witness_ord, then by
\* witness_id; cmp returns Equal exactly when both fields are equal, and the
\* relation is a total order whenever the orders on WitnessOrd and WitnessId
\* are.
C19_WitnessAnchorOrder ==
    wit_pc = "done" =>
        LET w == <<wit_x, wit_y, wit_z>> IN
        /\ \A i, j \in 1..3 :
              /\ wit_cmp[<<i, j>>] \in {"Less", "Equal", "Greater"}
              /\ wit_cmp[<<i, j>>] = "Less" <=> LexBefore(w[i], w[j])
              /\ wit_cmp[<<i, j>>] = "Greater" <=> LexBefore(w[j], w[i])
              /\ wit_cmp[<<i, j>>] = "Equal" <=>
                    /\ w[i].witness_ord = w[j].witness_ord
                    /\ w[i].witness_id = w[j].witness_id
              /\ wit_cmp[<<i, j>>] = "Less" <=> wit_cmp[<<j, i>>] = "Greater"
        /\ \A i, j, k \in 1..3 :
              (wit_cmp[<<i, j>>] # "Greater" /\ wit_cmp[<<j, k>>] # "Greater")
                 => wit_cmp[<<i, k>>] # "Greater"

\* a lower ord decides against a higher id, and equal ords leave it to the id
C19_Witness ==
    /\ wit_pc = "done"
    /\ Before(wit_orders.ord, wit_x.witness_ord, wit_y.witness_ord)
    /\ Before(wit_orders.id, wit_y.witness_id, wit_x.witness_id)
    /\ wit_cmp[<<1, 2>>] = "Less"
    /\ wit_y.witness_ord = wit_z.witness_ord
    /\ wit_cmp[<<2, 3>>] = "Greater"

----------------------------------------------------------------------------
(* Properties of state data *)

\* C20: for every RevealedData value r, r.conceal() equals r.commit_id(); so
\* concealing is deterministic and two revealed values with equal blob and
\* equal salt conceal to the same ConcealedData. For VoidState, conceal()
\* returns the value itself.
C20_ConcealIsCommitId ==
    /\ dat_pc = "concealed" =>
          /\ dat_concealed[1] = commit_id(dat_r1, dat_hash)
          /\ dat_concealed[2] = commit_id(dat_r2, dat_hash)
          /\ (dat_r1.value = dat_r2.value /\ dat_r1.salt = dat_r2.salt)
                => dat_concealed[1] = dat_concealed[2]
    /\ dat_void.called => dat_void.result = dat_void.self

\* one blob under two salts, concealed to two different commitments, and
\* the void state concealed
C20_Witness ==
    /\ dat_pc = "concealed"
    /\ dat_r1.value = <<7, 9>>
    /\ dat_r2.value = <<7, 9>>
    /\ dat_r1.salt # dat_r2.salt
    /\ dat_concealed[1] # dat_concealed[2]
    /\ dat_void.called

\* x strictly before y as byte strings
BlobBefore(x, y) ==
    \/ Len(x) < Len(y) /\ \A i \in 1..Len(x) : x[i] = y[i]
    \/ \E k \in 1..Len(x) :
          /\ k <= Len(y)
          /\ \A i \in 1..(k - 1) : x[i] = y[i]
          /\ x[k] < y[k]

\* x strictly below y as 128-bit numbers: the most significant differing limb
SaltBefore(x, y) ==
    \E k \in 1..8 : x[k] < y[k] /\ \A j \in 1..8 : j > k => x[j] = y[j]

\* C21: RevealedData is ordered lexicographically by value first and salt
\* second: cmp compares the blobs and uses the salts only when the blobs are
\* equal; cmp returns Equal iff blob and salt are both equal, which agrees with
\* the derived ==.
C21_RevealedDataOrder ==
    dat_cmp.called =>
        /\ dat_cmp.result \in {"Less", "Equal", "Greater"}
        /\ BlobBefore(dat_r1.value, dat_r2.value) => dat_cmp.result = "Less"
        /\ BlobBefore(dat_r2.value, dat_r1.value) => dat_cmp.result = "Greater"
        /\ dat_r1.value = dat_r2.value =>
              /\ SaltBefore(dat_r1.salt, dat_r2.salt) => dat_cmp.result = "Less"
              /\ SaltBefore(dat_r2.salt, dat_r1.salt) => dat_cmp.result = "Greater"
        /\ dat_cmp.result = "Equal" <=>
              (dat_r1.value = dat_r2.value /\ dat_r1.salt = dat_r2.salt)
        /\ dat_cmp.result = "Equal" <=> dat_cmp.eq

\* the smaller blob wins against the smaller salt
C21_Witness ==
    /\ dat_cmp.called
    /\ dat_r1.value = <<7, 9>>
    /\ dat_r2.value = <<8>>
    /\ SaltBefore(dat_r2.salt, dat_r1.salt)
    /\ dat_cmp.result = "Less"

----------------------------------------------------------------------------
(* Properties of decoding followed by encoding *)

\* C22: every 9-byte input that decodes successfully as Occurences<I>
\* re-encodes to exactly the same 9 bytes, inputs with tag 0x00 or 0x01 and a
\* non-zero max field included.
C22_DecodeEncodeSameBytes ==
    (dec_pc = "encoded" /\ Len(dec_data) = 9) => dec_bytes = dec_data

----------------------------------------------------------------------------
(* Properties of PeerConnection *)

\* C23: PeerConnection::split returns a (PeerReceiver, PeerSender) pair
\* without panicking for each of the two session types it recognises,
\* Raw<NoEncryption, ftcp::Connection> and Raw<NoEncryption,
\* zmqsocket::Connection>; it panics only for other session types.
C23_SplitRecognisedSessions ==
    peer_pc \in {"split", "panicked"} =>
        (peer_pc = "panicked" <=> peer_conn.session \notin {FtcpSession, ZmqSession})

\* C24: after split the PeerReceiver and the PeerSender hold the same shared
\* awaiting_pong cell, initialised to the value PeerConnection.awaiting_pong
\* had at the moment of the split; the receiver keeps the connection's
\* unmarshaller; a connection built by with, connect or accept starts with
\* awaiting_pong = false, and send_message / recv_message on either form
\* never change it.
C24_SharedAwaitingPong ==
    /\ [](/\ peer_pc = "split" =>
                /\ peer_recv.awaiting_pong = peer_send.awaiting_pong
                /\ peer_recv.awaiting_pong \in DOMAIN peer_cells
                /\ peer_cells[peer_recv.awaiting_pong] = peer_conn.awaiting_pong
                /\ peer_recv.unmarshaller = peer_conn.unmarshaller
          /\ peer_pc = "connected" => ~peer_conn.awaiting_pong)
    /\ [][/\ (peer_pc = "none" /\ peer_pc' = "connected") => ~peer_conn'.awaiting_pong
          /\ peer_wire' # peer_wire =>
                UNCHANGED <<peer_pc, peer_conn, peer_recv, peer_send, peer_cells>>]_vars

\* both halves point at the one cell allocated by split, after traffic on
\* the connection and on the halves
C24_Witness ==
    /\ peer_pc = "split"
    /\ peer_cells = <<FALSE>>
    /\ peer_recv.awaiting_pong = 1
    /\ peer_send.awaiting_pong = 1
    /\ Len(peer_wire.sent) = 2
    /\ Len(peer_wire.received) = 1

----------------------------------------------------------------------------
(* Properties of the verdict *)

\* C25: whenever validity() returns Valid, unresolved_txids is empty: a
\* status that records an unresolved witness txid is never reported as Valid
\* (nor as ValidExceptEndpoints), even when failures is empty.
C25_ValidHasNoUnresolved ==
    validity(status) \in {"Valid", "ValidExceptEndpoints"}
        => status.unresolved_txids = <<>>

BadVerdicts == {"Invalid", "UnresolvedTransactions"}

\* C27: merging keeps the verdict or moves it away from Valid: (a += b) is
\* Valid iff both a and b are Valid; and once a failure has been added,
\* validity() is never Valid or ValidExceptEndpoints after any further
\* add_failure, add_warning, add_info or +=.
C27_VerdictUnderMerge ==
    /\ [](added_failures # <<>> => validity(status) \in BadVerdicts)
    /\ [][/\ last_op' = "add_assign" =>
                (validity(status') = "Valid"
                    <=> (validity(status) = "Valid" /\ validity(last_rhs') = "Valid"))
          /\ last_op' = "add_failure" => validity(status') \in BadVerdicts
          /\ validity(status) \in BadVerdicts => validity(status') \in BadVerdicts]_vars

\* an Invalid status that a merge moved to UnresolvedTransactions
C27_Witness ==
    /\ last_op = "add_assign"
    /\ last_rhs.failures = <<>>
    /\ last_rhs.unresolved_txids # <<>>
    /\ status.unresolved_txids = last_rhs.unresolved_txids
    /\ status.failures # <<>>
    /\ validity(status) = "UnresolvedTransactions"

----------------------------------------------------------------------------
(* Properties of decoded bounds *)

\* C26: for every value of Occurences<I> that can be decoded, min_value() <=
\* max_value(), so at least one count passes check; this includes
\* OnceOrUpTo(Some(0)), which decodes from tag 0xFF with max field 0.
C26_MinAtMostMax ==
    (dec_pc = "return" /\ dec_result.kind = "Ok") =>
        /\ NumLe(min_value(dec_result.value, dec_I), max_value(dec_result.value, dec_I))
        /\ \E count \in Values(dec_I) :
              check(dec_result.value, dec_I, dec_I, count) = CheckOk

----------------------------------------------------------------------------
(* Properties of check across the codec *)

\* C28: encoding then decoding an Occurences<I> value preserves its checking
\* behaviour even where it does not preserve the value: for every x and every
\* count c, strict_decode(strict_encode(x)).check(c) returns the same result as
\* x.check(c), with the same min, max and found in the error; in particular
\* OnceOrUpTo(Some(I::MAX)) and OnceOrUpTo(None) (and the NoneOrUpTo pair)
\* accept the same counts and report the same bounds.
C28_CheckSurvivesCodec ==
    /\ enc_pc = "done" => enc_back.kind = "Ok"
    /\ enc_check.called => enc_check.of_self = enc_check.of_back

\* OnceOrUpTo::<u8>(Some(255)) comes back as OnceOrUpTo(None); both reject
\* the count 0 with min 1 and max 255
C28_Witness ==
    /\ enc_check.called
    /\ enc_I = "u8"
    /\ enc_self = [kind |-> "OnceOrUpTo", max |-> Some(<<255>>)]
    /\ enc_back.value = [kind |-> "OnceOrUpTo", max |-> NoBound]
    /\ enc_check.count = <<0>>
    /\ ~enc_check.of_back.ok
    /\ enc_check.of_back.min = <<1, 0, 0, 0, 0, 0, 0, 0>>
    /\ enc_check.of_back.max = <<255, 0, 0, 0, 0, 0, 0, 0>>

----------------------------------------------------------------------------
(* Properties of the methods CheckedConsignment hands through *)

\* what the wrapped provider returns for a call
ProviderAnswer(call) ==
    CASE call.method = "schema" -> prov_api.schema
      [] call.method = "asset_tags" -> prov_api.asset_tags
      [] call.method = "genesis" -> prov_api.genesis
      [] call.method = "terminals" -> prov_api.terminals
      [] call.method = "bundle_ids" -> prov_api.bundle_ids
      [] call.method = "grip" -> prov_api.grip[call.id]
      [] call.method = "op_witness_id" -> prov_api.op_witness_id[call.id]

\* C29: CheckedConsignment re-verifies only operation and bundle: schema(),
\* asset_tags(), genesis(), terminals(), bundle_ids(), grip(bundle_id) and
\* op_witness_id(opid) return exactly what the wrapped provider returns for
\* the same arguments, with no id check, and the wrapper holds no state of its
\* own: a call's result does not depend on the calls before it, and no call
\* changes the provider.
C29_PassThrough ==
    /\ [](cons_call.method # "new" => cons_result = ProviderAnswer(cons_call))
    /\ [][UNCHANGED <<prov_operations, prov_bundles, prov_api>>]_vars

\* a grip handed through although it belongs to another bundle id
C29_Witness ==
    /\ cons_call.method = "grip"
    /\ cons_result.some
    /\ bundle_id(cons_result.val) # cons_call.id

====
